---- MODULE Spec2Model ----
(***************************************************************************)
(* charmonium::scope_timer: the per-thread call-tree engine (Timer,        *)
(* Thread), the process-wide registry and configuration (Process), the     *)
(* RAII guard (ScopeTimer) and the callback protocol (CallbackType), as    *)
(* found in charmonium/scope_timer/*.hpp and process.hpp.                  *)
(*                                                                         *)
(* One action is one call of the public surface, carried out whole: a      *)
(* ScopeTimer constructor, a ScopeTimer destructor, create_thread,         *)
(* delete_thread, and the three configuration setters.  assert() is the    *)
(* debug build's: a failed assertion aborts the process (aborted).         *)
(*                                                                         *)
(* Further parts: the ProcessContainer of each module (the Process shared  *)
(* through a temporary file and destroyed by its last holder), destructors *)
(* of ScopeTimers run out of nesting order, and the older cpu_timer        *)
(* generation (Frame, Stack, Process::flush, StackFrameContext) of         *)
(* cpu_timer_internal.hpp.  Where the order of the statements inside a     *)
(* call or the two mutexes matter, the same calls are run one statement    *)
(* at a time (pc, mutex), a lock and an unlock being statements.           *)
(***************************************************************************)
EXTENDS Integers, Sequences, FiniteSets, TLC

\* ------------------------------------------------------------------ bounds
MaxFrames == 4   \* frames one Thread enters, the root included
MaxUse == 2      \* outstanding create_thread calls for one thread id
MaxIdle == 1     \* live ScopeTimers of one OS thread that were constructed disabled
MaxTimed == 3    \* MaxFrames of the specification with the coarse clock
Period == 3      \* a callback period given to set_callback_period, in clock units
ShortPeriod == 2 \* the one given under the coarse clock
MaxShared == 2   \* MaxFrames of the specification with two OS threads
MaxLives == 2    \* OS threads that get the same thread id, one after the other
SizeSpan == 256  \* the values of a size_t, whose arithmetic is modulo this (narrowed)

Tids == {"main", "worker"}
MainOnly == {"main"}

\* What the wall clock and the calling thread's CPU clock advance by, as a
\* pair, between one frame's reads and the next: always one unit each
\* (Steady); or nothing, or one unit each, or one unit of wall time in which
\* the thread did not run (Coarse: two reads of a clock may return the same
\* value; a thread consumes no CPU time while no wall time passes).
Steady == { << 1, 1 >> }
Coarse == { << 0, 0 >>, << 1, 0 >>, << 1, 1 >> }

\* A run shorter than one tick of the wall clock, timed by a CPU clock of
\* finer resolution: every wall-clock read returns the same value, every
\* CPU-clock read of a thread a later one.
WithinOneWallTick == { << 0, 1 >> }

\* The periods the setters are called with: callback_once, callback_every,
\* set_callback_period(p).
Periods(p) == {0, 1, p}

\* The callbacks installed: the base class (hooks do nothing) and the test's
\* StoreCallback (every hook but thread_start drains).
Callbacks == {"CallbackType", "StoreCallback"}

\* What a SCOPE_TIMER site passes: name, info and source location.
PlainArgs == { [name |-> "", info |-> "null", source_loc |-> "trace1"] }

RootArgs == [name |-> "", info |-> "null", source_loc |-> ""]

\* What the SCOPE_TIMER site that enters the frame of index i passes, in a
\* program whose sites differ in name, payload and source location
\* (test/main.cpp: trace2 attaches the payload "hello").
ArgsOf(i) ==
  [ name |-> IF i % 3 = 2 THEN "named" ELSE "",
    info |-> IF i % 2 = 1 THEN "hello" ELSE "null",
    source_loc |-> << "trace1", "trace2", "trace4" >>[(i % 3) + 1] ]

\* The modules (executable, shared library) of the program: each has its own
\* static process_container and its own thread_local thread_container.
Modules == {"exe", "lib", "plugin"}

\* An empty shared_ptr<Process>.  A Process is known by the module whose
\* process_container constructed it.
NullProcess == "nullptr"

\* The file does not exist.
NoFile == "none"

VARIABLES
  enabled,           \* Process::enabled
  callback_period,   \* Process::callback_period
  callback,          \* Process::callback (which class the object is)
  start,             \* Process::start
  threads,           \* Process::threads: thread id -> Thread
  thread_use_count,  \* Process::thread_use_count: thread id -> count
  wall,              \* the wall clock's last reading
  cpu,               \* each OS thread's CPU clock's last reading
  scopes,            \* each OS thread's live ScopeTimers, in the order of construction
  hist,              \* per thread id, one record per Thread ever constructed
  aborted,           \* an assertion failed
  tmp_file,          \* the file named ProcessContainer::filename: what it holds
  process_container, \* each module's static ProcessContainer
  pc,                \* each OS thread's call in progress: the statements left to run
  mutex              \* threads_mutex and each Thread's finished_mutex: who holds it

vars == << enabled, callback_period, callback, start, threads, thread_use_count,
           wall, cpu, scopes, hist, aborted, tmp_file, process_container,
           pc, mutex >>

\* No OS thread is inside a call of the library; no mutex is held.
NoLocals == [this_index |-> 0, caller_index |-> 0, prev_index |-> 0, args |-> RootArgs]

NoCalls == [x \in Tids |-> [todo |-> << >>, loc |-> NoLocals]]

Unlocked ==
  [ threads_mutex |-> [owner |-> "none", depth |-> 0],
    finished_mutex |-> [t \in Tids |-> "none"] ]

\* ------------------------------------------------------------------ Timer
\* Timer::Timer with caller_index_ and prev_index_ stored in each other's field.
Timer_exchanged(process_start_, args, index_, caller_index_, prev_index_) ==
  [ process_start |-> process_start_,
    name |-> args.name,
    source_loc |-> args.source_loc,
    index |-> index_,
    caller_index |-> prev_index_,
    prev_index |-> caller_index_,
    start_wall |-> 0,
    start_cpu |-> 0,
    stop_wall |-> 0,
    stop_cpu |-> 0,
    info |-> args.info,
    youngest_child_index |-> 0 ]

Timer(process_start_, args, index_, caller_index_, prev_index_) ==
  [ process_start |-> process_start_,
    name |-> args.name,
    source_loc |-> args.source_loc,
    index |-> index_,
    caller_index |-> caller_index_,
    prev_index |-> prev_index_,
    start_wall |-> 0,
    start_cpu |-> 0,
    stop_wall |-> 0,
    stop_cpu |-> 0,
    info |-> args.info,
    youngest_child_index |-> 0 ]

\* assert(start_cpu == 0)
start_timers_assert(tm) == tm.start_cpu = 0

\* w and c are what wall_now() and cpu_now() return.
start_timers(tm, w, c) == [tm EXCEPT !.start_wall = w, !.start_cpu = c]

\* assert(stop_cpu == 0) before the reads, assert(start_cpu != 0) after them
stop_timers_assert(tm) == tm.stop_cpu = 0 /\ tm.start_cpu # 0

\* stop_timers that stores the start times again instead of the two reads.
stop_timers_restart(tm, w, c) == [tm EXCEPT !.stop_wall = tm.start_wall, !.stop_cpu = tm.start_cpu]

\* stop_timers with the two reads stored in each other's field.
stop_timers_exchanged(tm, w, c) == [tm EXCEPT !.stop_wall = c, !.stop_cpu = w]

stop_timers(tm, w, c) == [tm EXCEPT !.stop_wall = w, !.stop_cpu = c]

\* get_start_wall with the operands of the subtraction exchanged.
get_start_wall_exchanged(tm) ==
  IF tm.start_wall = 0 THEN 0 ELSE tm.process_start - tm.start_wall

get_start_wall(tm) == IF tm.start_wall = 0 THEN 0 ELSE tm.start_wall - tm.process_start
get_stop_wall(tm) == IF tm.stop_wall = 0 THEN 0 ELSE tm.stop_wall - tm.process_start
get_start_cpu(tm) == tm.start_cpu
get_stop_cpu(tm) == tm.stop_cpu
is_leaf(tm) == tm.youngest_child_index = 0
has_prev(tm) == tm.prev_index # 0

\* ------------------------------------------------------------------ Thread
Back(s) == s[Len(s)]
PopBack(s) == SubSeq(s, 1, Len(s) - 1)

\* A Thread whose index counter does not start at 0.
NewThread_counting == [stack |-> << >>, finished |-> << >>, index |-> 1, last_log |-> 0]

NewThread == [stack |-> << >>, finished |-> << >>, index |-> 0, last_log |-> 0]

\* enter_stack_frame with this_index = ++index.
enter_stack_frame_preincrement(th, process_start_, args, w, c) ==
  LET this_index == th.index + 1
      nonempty == th.stack # << >>
      caller_index == IF nonempty THEN Back(th.stack).index ELSE 0
      prev_index == IF nonempty THEN Back(th.stack).youngest_child_index ELSE 0
      stack1 == IF nonempty
                THEN [th.stack EXCEPT ![Len(th.stack)].youngest_child_index = this_index]
                ELSE th.stack
      tm == Timer(process_start_, args, this_index, caller_index, prev_index)
  IN [th EXCEPT !.index = th.index + 1,
                !.stack = Append(stack1, start_timers(tm, w, c))]

\* enter_stack_frame with the caller taken from stack.front().
enter_stack_frame_front(th, process_start_, args, w, c) ==
  LET this_index == th.index
      nonempty == th.stack # << >>
      caller_index == IF nonempty THEN th.stack[1].index ELSE 0
      prev_index == IF nonempty THEN Back(th.stack).youngest_child_index ELSE 0
      stack1 == IF nonempty
                THEN [th.stack EXCEPT ![Len(th.stack)].youngest_child_index = this_index]
                ELSE th.stack
      tm == Timer(process_start_, args, this_index, caller_index, prev_index)
  IN [th EXCEPT !.index = th.index + 1,
                !.stack = Append(stack1, start_timers(tm, w, c))]

\* enter_stack_frame without the update of caller.youngest_child_index.
enter_stack_frame_no_youngest(th, process_start_, args, w, c) ==
  LET this_index == th.index
      nonempty == th.stack # << >>
      caller_index == IF nonempty THEN Back(th.stack).index ELSE 0
      prev_index == IF nonempty THEN Back(th.stack).youngest_child_index ELSE 0
      tm == Timer(process_start_, args, this_index, caller_index, prev_index)
  IN [th EXCEPT !.index = th.index + 1,
                !.stack = Append(th.stack, start_timers(tm, w, c))]

\* enter_stack_frame that also records the new frame as the youngest child
\* of the frame finished last.
enter_stack_frame_marks_finished(th, process_start_, args, w, c) ==
  LET this_index == th.index
      nonempty == th.stack # << >>
      caller_index == IF nonempty THEN Back(th.stack).index ELSE 0
      prev_index == IF nonempty THEN Back(th.stack).youngest_child_index ELSE 0
      stack1 == IF nonempty
                THEN [th.stack EXCEPT ![Len(th.stack)].youngest_child_index = this_index]
                ELSE th.stack
      finished1 == IF th.finished # << >>
                   THEN [th.finished EXCEPT ![Len(th.finished)].youngest_child_index = this_index]
                   ELSE th.finished
      tm == Timer(process_start_, args, this_index, caller_index, prev_index)
  IN [th EXCEPT !.index = th.index + 1,
                !.finished = finished1,
                !.stack = Append(stack1, start_timers(tm, w, c))]

\* enter_stack_frame that takes the bottom of the active list for the caller.
enter_stack_frame_caller_bottom(th, process_start_, args, w, c) ==
  LET this_index == th.index
      nonempty == th.stack # << >>
      caller_index == IF nonempty THEN Head(th.stack).index ELSE 0
      prev_index == IF nonempty THEN Back(th.stack).youngest_child_index ELSE 0
      stack1 == IF nonempty
                THEN [th.stack EXCEPT ![Len(th.stack)].youngest_child_index = this_index]
                ELSE th.stack
      tm == Timer(process_start_, args, this_index, caller_index, prev_index)
  IN [th EXCEPT !.index = th.index + 1,
                !.stack = Append(stack1, start_timers(tm, w, c))]

enter_stack_frame(th, process_start_, args, w, c) ==
  LET this_index == th.index
      nonempty == th.stack # << >>
      caller_index == IF nonempty THEN Back(th.stack).index ELSE 0
      prev_index == IF nonempty THEN Back(th.stack).youngest_child_index ELSE 0
      stack1 == IF nonempty
                THEN [th.stack EXCEPT ![Len(th.stack)].youngest_child_index = this_index]
                ELSE th.stack
      tm == Timer(process_start_, args, this_index, caller_index, prev_index)
  IN [th EXCEPT !.index = th.index + 1,
                !.stack = Append(stack1, start_timers(tm, w, c))]

\* drain_finished without the swap: the frames are returned and kept.
drain_finished_copies(th) == [ret |-> th.finished, thread |-> th]

\* drain_finished that leaves the frame finished last behind.
drain_finished_keeps_back(th) ==
  [ ret |-> th.finished,
    thread |-> [th EXCEPT !.finished = IF @ = << >> THEN @ ELSE << Back(@) >>] ]

drain_finished(th) == [ret |-> th.finished, thread |-> [th EXCEPT !.finished = << >>]]

\* A hook of the callback object cb, called with the Thread th: the Thread it
\* leaves and the record of the call.
Hook(cb, hook, th) ==
  LET drains == cb = "StoreCallback" /\ hook # "thread_start"
      d == drain_finished(th)
  IN [ thread |-> IF drains THEN d.thread ELSE th,
       call |-> [ hook |-> hook,
                  cb |-> cb,
                  depth |-> Len(th.stack),
                  avail |-> th.finished,
                  drained |-> IF drains THEN d.ret ELSE << >> ] ]

\* now > last_log + process_callback_period
Due(now, last_log, period) == now > last_log + period

\* maybe_flush without the test for period 0.
maybe_flush_ignores_once(th, period, cb) ==
  IF th.finished # << >>
     /\ (period = 1 \/ Due(get_stop_cpu(Back(th.finished)), th.last_log, period))
  THEN LET h == Hook(cb, "thread_in_situ", th)
       IN [thread |-> h.thread, calls |-> << h.call >>]
  ELSE [thread |-> th, calls |-> << >>]

\* maybe_flush that calls thread_in_situ a second time, without a look at
\* finished.
maybe_flush_twice(th, period, cb) ==
  IF th.finished # << >>
     /\ period # 0
     /\ (period = 1 \/ Due(get_stop_cpu(Back(th.finished)), th.last_log, period))
  THEN LET h == Hook(cb, "thread_in_situ", th)
           g == Hook(cb, "thread_in_situ", h.thread)
       IN [thread |-> g.thread, calls |-> << h.call, g.call >>]
  ELSE [thread |-> th, calls |-> << >>]

\* maybe_flush that clears finished once the hook has returned.
maybe_flush_clears(th, period, cb) ==
  IF th.finished # << >>
     /\ period # 0
     /\ (period = 1 \/ Due(get_stop_cpu(Back(th.finished)), th.last_log, period))
  THEN LET h == Hook(cb, "thread_in_situ", th)
       IN [thread |-> [h.thread EXCEPT !.finished = << >>], calls |-> << h.call >>]
  ELSE [thread |-> th, calls |-> << >>]

maybe_flush(th, period, cb) ==
  IF th.finished # << >>
     /\ period # 0
     /\ (period = 1 \/ Due(get_stop_cpu(Back(th.finished)), th.last_log, period))
  THEN LET h == Hook(cb, "thread_in_situ", th)
       IN [thread |-> h.thread, calls |-> << h.call >>]
  ELSE [thread |-> th, calls |-> << >>]

\* The assertion turned round: it passes on an empty active list only.
exit_stack_frame_assert_inverted(th) == th.stack = << >>

\* assert(!stack.empty())
exit_stack_frame_assert(th) ==
  th.stack # << >> /\ stop_timers_assert(Back(th.stack))

\* exit_stack_frame without the call of maybe_flush.
exit_stack_frame_no_flush(th, period, cb, w, c) ==
  [ thread |-> [th EXCEPT !.finished = Append(th.finished, stop_timers(Back(th.stack), w, c)),
                          !.stack = PopBack(th.stack)],
    calls |-> << >> ]

\* exit_stack_frame with finished.emplace_front.
exit_stack_frame_front(th, period, cb, w, c) ==
  LET tm == stop_timers(Back(th.stack), w, c)
      th1 == [th EXCEPT !.finished = << tm >> \o th.finished,
                        !.stack = PopBack(th.stack)]
  IN maybe_flush(th1, period, cb)

\* exit_stack_frame that appends what std::move left behind: a frame whose
\* info is an empty shared_ptr.
exit_stack_frame_moved_from(th, period, cb, w, c) ==
  LET tm == [stop_timers(Back(th.stack), w, c) EXCEPT !.info = "null"]
      th1 == [th EXCEPT !.finished = Append(th.finished, tm),
                        !.stack = PopBack(th.stack)]
  IN maybe_flush(th1, period, cb)

\* exit_stack_frame with stack.pop_front(): the top is finished, the bottom
\* is removed.
exit_stack_frame_pop_front(th, period, cb, w, c) ==
  LET tm == stop_timers(Back(th.stack), w, c)
      th1 == [th EXCEPT !.finished = Append(th.finished, tm),
                        !.stack = Tail(th.stack)]
  IN maybe_flush(th1, period, cb)

exit_stack_frame(th, period, cb, w, c) ==
  LET tm == stop_timers(Back(th.stack), w, c)
      th1 == [th EXCEPT !.finished = Append(th.finished, tm),
                        !.stack = PopBack(th.stack)]
  IN maybe_flush(th1, period, cb)


\* Thread::Thread: the root frame is entered, then thread_start is called.
ThreadCtor(process_start_, cb, w, c) ==
  Hook(cb, "thread_start", enter_stack_frame(NewThread, process_start_, RootArgs, w, c))

\* The two assertions of Thread::~Thread: the one in exit_stack_frame, and
\* assert(stack.empty()) after it.
ThreadDtor_assert(th) == exit_stack_frame_assert(th) /\ Len(th.stack) = 1

\* ~Thread without the call of thread_stop.
ThreadDtor_no_stop(th, period, cb, w, c) ==
  LET e == exit_stack_frame(th, period, cb, w, c)
  IN [calls |-> e.calls, left |-> e.thread.finished]

\* ~Thread with thread_stop called before the root frame is exited.
ThreadDtor_stop_first(th, period, cb, w, c) ==
  LET h == Hook(cb, "thread_stop", th)
      e == exit_stack_frame(h.thread, period, cb, w, c)
  IN [calls |-> << h.call >> \o e.calls, left |-> e.thread.finished]

\* ~Thread that does nothing while the Process is disabled.
ThreadDtor_unless_disabled(th, period, cb, w, c) ==
  LET e == exit_stack_frame(th, period, cb, w, c)
      h == Hook(cb, "thread_stop", e.thread)
  IN IF enabled
     THEN [calls |-> Append(e.calls, h.call), left |-> h.thread.finished]
     ELSE [calls |-> << >>, left |-> th.finished]

\* Thread::~Thread: the root frame is exited, then thread_stop is called; what
\* is then still in finished is destroyed with the Thread (left).
ThreadDtor(th, period, cb, w, c) ==
  LET e == exit_stack_frame(th, period, cb, w, c)
      h == Hook(cb, "thread_stop", e.thread)
  IN [calls |-> Append(e.calls, h.call), left |-> h.thread.finished]

\* ----------------------------------------------------------------- history
\* One record per Thread object: the hooks called for it, the frames entered
\* on it (as they were when their timers started) and, once it is destroyed,
\* what its finished collection still held.
NewLife == [calls |-> << >>, entered |-> << >>, over |-> FALSE, left |-> << >>]

Life(t) == hist[t][Len(hist[t])]

Registered(t) == t \in DOMAIN threads

UseCount(t) == IF t \in DOMAIN thread_use_count THEN thread_use_count[t] ELSE 0

\* An emplace that overwrites every entry of the map.
Put_all(map, k, v) == [x \in DOMAIN map \cup {k} |-> v]

Put(map, k, v) == [x \in DOMAIN map \cup {k} |-> IF x = k THEN v ELSE map[x]]

\* An erase that removes nothing.
Erase_nothing(map, k) == map

Erase(map, k) == [x \in DOMAIN map \ {k} |-> map[x]]

\* The records of hook calls, each with the OS thread the call was made on.
OnThread(x, calls) ==
  [ i \in DOMAIN calls |->
      IF "by" \in DOMAIN calls[i] THEN calls[i]
      ELSE [ f \in DOMAIN calls[i] \cup {"by"} |-> IF f = "by" THEN x ELSE calls[i][f] ] ]

Concat(ss) ==
  LET RECURSIVE cat(_)
      cat(n) == IF n = 0 THEN << >> ELSE cat(n - 1) \o ss[n]
  IN cat(Len(ss))

\* ----------------------------------------------------------------- Process
\* The program after every module's process_container has got the Process
\* (the first module created it and wrote the file, the others looked it up),
\* the Process as its constructor leaves it.
Init0(D) ==
  /\ \E tick \in D : wall = tick[1] /\ start = tick[1]
  /\ enabled = FALSE
  /\ callback_period = 0
  /\ callback = "CallbackType"
  /\ threads = << >>
  /\ thread_use_count = << >>
  /\ cpu = [t \in Tids |-> 0]
  /\ scopes = [t \in Tids |-> << >>]
  /\ hist = [t \in Tids |-> << >>]
  /\ aborted = FALSE
  /\ tmp_file = "exe"
  /\ process_container = [m \in Modules |-> [process |-> "exe", creating |-> FALSE]]
  /\ pc = NoCalls
  /\ mutex = Unlocked

SetEnabled ==
  /\ ~aborted
  /\ \E b \in BOOLEAN : enabled' = b
  /\ UNCHANGED << callback_period, callback, start, threads, thread_use_count,
                  wall, cpu, scopes, hist, aborted,
                  tmp_file, process_container, pc, mutex >>

SetCallbackPeriod(P) ==
  /\ ~aborted
  /\ \E p \in P : callback_period' = p
  /\ UNCHANGED << enabled, callback, start, threads, thread_use_count,
                  wall, cpu, scopes, hist, aborted,
                  tmp_file, process_container, pc, mutex >>

SetCallback ==
  /\ ~aborted
  /\ \E k \in Callbacks : callback' = k
  /\ UNCHANGED << enabled, callback_period, start, threads, thread_use_count,
                  wall, cpu, scopes, hist, aborted,
                  tmp_file, process_container, pc, mutex >>

\* Process::create_thread, called by the ThreadContainer of one module on the
\* OS thread t.  lives bounds the Threads constructed under one id, uses the
\* modules of the program.
CreateThread(t, D, lives, uses) ==
  /\ ~aborted
  /\ UseCount(t) < uses
  /\ thread_use_count' = Put(thread_use_count, t, UseCount(t) + 1)
  /\ IF ~Registered(t)
     THEN /\ Len(hist[t]) < lives
          /\ \E tick \in D :
               LET w == wall + tick[1]
                   c == cpu[t] + tick[2]
                   h == ThreadCtor(start, callback, w, c)
               IN /\ wall' = w
                  /\ cpu' = [cpu EXCEPT ![t] = c]
                  /\ threads' = Put(threads, t, h.thread)
                  /\ hist' = [hist EXCEPT ![t] = Append(@,
                        [NewLife EXCEPT !.calls = OnThread(t, << h.call >>),
                                        !.entered = << Back(h.thread.stack) >>])]
     ELSE UNCHANGED << threads, wall, cpu, hist >>
  /\ UNCHANGED << enabled, callback_period, callback, start, scopes, aborted,
                  tmp_file, process_container, pc, mutex >>

\* Process::delete_thread, called by ~ThreadContainer when the OS thread t
\* exits (every ScopeTimer of the thread is gone by then).
DeleteThread(t, D) ==
  /\ ~aborted
  /\ scopes[t] = << >>
  /\ Registered(t)
  /\ IF UseCount(t) - 1 = 0
     THEN IF ThreadDtor_assert(threads[t])
          THEN \E tick \in D :
                 LET w == wall + tick[1]
                     c == cpu[t] + tick[2]
                     d == ThreadDtor(threads[t], callback_period, callback, w, c)
                 IN /\ wall' = w
                    /\ cpu' = [cpu EXCEPT ![t] = c]
                    /\ threads' = Erase(threads, t)
                    /\ thread_use_count' = Put(thread_use_count, t, 0)
                    /\ hist' = [hist EXCEPT ![t][Len(hist[t])] =
                          [@ EXCEPT !.calls = @ \o OnThread(t, d.calls),
                                    !.over = TRUE,
                                    !.left = d.left]]
                    /\ aborted' = FALSE
          ELSE /\ aborted' = TRUE
               /\ UNCHANGED << threads, thread_use_count, wall, cpu, hist >>
     ELSE /\ thread_use_count' = Put(thread_use_count, t, UseCount(t) - 1)
          /\ UNCHANGED << threads, wall, cpu, hist, aborted >>
  /\ UNCHANGED << enabled, callback_period, callback, start, scopes,
                  tmp_file, process_container, pc, mutex >>

\* -------------------------------------------------------------- ScopeTimer
\* A ScopeTimer whose field enabled is true whatever is_enabled() returned.
ScopeTimer_stores_true(is_enabled, th) == [enabled |-> TRUE, frame |-> th.index]

\* A ScopeTimer object: its field enabled and, if it is, the index of the
\* frame its constructor entered on th (the object itself keeps no trace of
\* the frame: ~ScopeTimer calls exit_stack_frame() with no argument).
ScopeTimer(is_enabled, th) ==
  IF is_enabled THEN [enabled |-> TRUE, frame |-> th.index] ELSE [enabled |-> FALSE]

Remove(seq, i) == SubSeq(seq, 1, i - 1) \o SubSeq(seq, i + 1, Len(seq))

\* ScopeTimer::ScopeTimer on the OS thread t, whose thread_container holds
\* the Thread registered under t.
ScopeTimerCtor(t, D, A, frames) ==
  /\ ~aborted
  /\ Registered(t)
  /\ scopes' = [scopes EXCEPT ![t] = Append(@, ScopeTimer(enabled, threads[t]))]
  /\ IF enabled
     THEN /\ threads[t].index < frames
          /\ \E args \in A, tick \in D :
               LET w == wall + tick[1]
                   c == cpu[t] + tick[2]
                   th == enter_stack_frame(threads[t], start, args, w, c)
               IN /\ wall' = w
                  /\ cpu' = [cpu EXCEPT ![t] = c]
                  /\ threads' = [threads EXCEPT ![t] = th]
                  /\ hist' = [hist EXCEPT ![t][Len(hist[t])].entered =
                                Append(@, Back(th.stack))]
     ELSE /\ Cardinality({i \in DOMAIN scopes[t] : ~scopes[t][i].enabled}) < MaxIdle
          /\ UNCHANGED << threads, wall, cpu, hist >>
  /\ UNCHANGED << enabled, callback_period, callback, start, thread_use_count, aborted,
                  tmp_file, process_container, pc, mutex >>

\* ~ScopeTimer that asks the Process whether it is enabled.
ScopeTimerDtor_is_enabled(t, D) ==
  /\ ~aborted
  /\ Registered(t)
  /\ scopes[t] # << >>
  /\ IF enabled
     THEN IF exit_stack_frame_assert(threads[t])
          THEN \E tick \in D :
                 LET w == wall + tick[1]
                     c == cpu[t] + tick[2]
                     e == exit_stack_frame(threads[t], callback_period, callback, w, c)
                 IN /\ wall' = w
                    /\ cpu' = [cpu EXCEPT ![t] = c]
                    /\ threads' = [threads EXCEPT ![t] = e.thread]
                    /\ hist' = [hist EXCEPT ![t][Len(hist[t])].calls = @ \o OnThread(t, e.calls)]
                    /\ scopes' = [scopes EXCEPT ![t] = PopBack(@)]
                    /\ aborted' = FALSE
          ELSE /\ aborted' = TRUE
               /\ UNCHANGED << threads, wall, cpu, hist, scopes >>
     ELSE /\ scopes' = [scopes EXCEPT ![t] = PopBack(@)]
          /\ UNCHANGED << threads, wall, cpu, hist, aborted >>
  /\ UNCHANGED << enabled, callback_period, callback, start, thread_use_count,
                  tmp_file, process_container, pc, mutex >>

\* ScopeTimer::~ScopeTimer of the innermost live ScopeTimer of the OS thread t.
ScopeTimerDtor(t, D) ==
  /\ ~aborted
  /\ Registered(t)
  /\ scopes[t] # << >>
  /\ IF Back(scopes[t]).enabled
     THEN IF exit_stack_frame_assert(threads[t])
          THEN \E tick \in D :
                 LET w == wall + tick[1]
                     c == cpu[t] + tick[2]
                     e == exit_stack_frame(threads[t], callback_period, callback, w, c)
                 IN /\ wall' = w
                    /\ cpu' = [cpu EXCEPT ![t] = c]
                    /\ threads' = [threads EXCEPT ![t] = e.thread]
                    /\ hist' = [hist EXCEPT ![t][Len(hist[t])].calls = @ \o OnThread(t, e.calls)]
                    /\ scopes' = [scopes EXCEPT ![t] = PopBack(@)]
                    /\ aborted' = FALSE
          ELSE /\ aborted' = TRUE
               /\ UNCHANGED << threads, wall, cpu, hist, scopes >>
     ELSE /\ scopes' = [scopes EXCEPT ![t] = PopBack(@)]
          /\ UNCHANGED << threads, wall, cpu, hist, aborted >>
  /\ UNCHANGED << enabled, callback_period, callback, start, thread_use_count,
                  tmp_file, process_container, pc, mutex >>

\* ------------------------------------------------------ contract violations
\* ScopeTimer::~ScopeTimer of the i-th live ScopeTimer of the OS thread t,
\* the innermost or not (ScopeTimers owned through pointers can be destroyed
\* in any order).
ScopeTimerDtorAt(t, i, D) ==
  /\ ~aborted
  /\ Registered(t)
  /\ i \in DOMAIN scopes[t]
  /\ IF scopes[t][i].enabled
     THEN IF exit_stack_frame_assert(threads[t])
          THEN \E tick \in D :
                 LET w == wall + tick[1]
                     c == cpu[t] + tick[2]
                     e == exit_stack_frame(threads[t], callback_period, callback, w, c)
                 IN /\ wall' = w
                    /\ cpu' = [cpu EXCEPT ![t] = c]
                    /\ threads' = [threads EXCEPT ![t] = e.thread]
                    /\ hist' = [hist EXCEPT ![t][Len(hist[t])].calls = @ \o OnThread(t, e.calls)]
                    /\ scopes' = [scopes EXCEPT ![t] = Remove(@, i)]
                    /\ aborted' = FALSE
          ELSE /\ aborted' = TRUE
               /\ UNCHANGED << threads, wall, cpu, hist, scopes >>
     ELSE /\ scopes' = [scopes EXCEPT ![t] = Remove(@, i)]
          /\ UNCHANGED << threads, wall, cpu, hist, aborted >>
  /\ UNCHANGED << enabled, callback_period, callback, start, thread_use_count,
                  tmp_file, process_container, pc, mutex >>

\* exit_stack_frame() called on the Thread registered under t with no
\* ScopeTimer of its own: one exit more than the enters.
UnmatchedExit(t, D) ==
  /\ ~aborted
  /\ Registered(t)
  /\ IF exit_stack_frame_assert(threads[t])
     THEN \E tick \in D :
            LET w == wall + tick[1]
                c == cpu[t] + tick[2]
                e == exit_stack_frame(threads[t], callback_period, callback, w, c)
            IN /\ wall' = w
               /\ cpu' = [cpu EXCEPT ![t] = c]
               /\ threads' = [threads EXCEPT ![t] = e.thread]
               /\ hist' = [hist EXCEPT ![t][Len(hist[t])].calls = @ \o OnThread(t, e.calls)]
               /\ aborted' = FALSE
     ELSE /\ aborted' = TRUE
          /\ UNCHANGED << threads, wall, cpu, hist >>
  /\ UNCHANGED << enabled, callback_period, callback, start, thread_use_count, scopes,
                  tmp_file, process_container, pc, mutex >>

\* ------------------------------------------------------------------ poller
\* A monitoring thread that kept the Thread& a hook was called with calls
\* drain_finished() on it.  The record of the call, as for a hook.
PollCall(th, ret) ==
  [ hook |-> "poll", cb |-> "poller", depth |-> Len(th.stack),
    avail |-> th.finished, drained |-> ret, by |-> "monitor" ]

\* drain_finished() from the monitoring thread while the owning thread is
\* not inside exit_stack_frame.  (A drain of an empty finished changes
\* nothing and is left out.)
PollerDrain(t) ==
  /\ ~aborted
  /\ Registered(t)
  /\ threads[t].finished # << >>
  /\ LET d == drain_finished(threads[t])
     IN /\ threads' = [threads EXCEPT ![t] = d.thread]
        /\ hist' = [hist EXCEPT ![t][Len(hist[t])].calls =
                      Append(@, PollCall(threads[t], d.ret))]
  /\ UNCHANGED << enabled, callback_period, callback, start, thread_use_count,
                  wall, cpu, scopes, aborted,
                  tmp_file, process_container, pc, mutex >>

\* exit_stack_frame on the owning thread overlapped by a drain_finished()
\* from the monitoring thread.  finished.emplace_back (its lock_guard is
\* commented out) and finished.swap (no lock_guard) are unsynchronised
\* accesses to the same container, a data race; what the two calls leave is
\* any of: the swap wholly before the emplace_back ("before"), wholly after
\* it and before maybe_flush ("after"), the new element written to storage
\* the swap has taken away and counted in neither container ("lost"), or
\* counted in both ("both").
RaceOutcomes == {"before", "after", "lost", "both"}

RacingExit(th, period, cb, w, c, outcome) ==
  LET tm == stop_timers(Back(th.stack), w, c)
      popped == [th EXCEPT !.stack = PopBack(th.stack)]
      ret == IF outcome \in {"before", "lost"} THEN th.finished
             ELSE Append(th.finished, tm)
      kept == IF outcome \in {"before", "both"} THEN << tm >> ELSE << >>
      m == maybe_flush([popped EXCEPT !.finished = kept], period, cb)
  IN [ thread |-> m.thread,
       calls |-> << PollCall([popped EXCEPT !.finished = th.finished], ret) >> \o m.calls ]

\* ~ScopeTimer of the innermost live ScopeTimer of t, constructed enabled,
\* while the monitoring thread drains.
RacingDtor(t, D) ==
  /\ ~aborted
  /\ Registered(t)
  /\ scopes[t] # << >>
  /\ Back(scopes[t]).enabled
  /\ exit_stack_frame_assert(threads[t])
  /\ \E tick \in D, outcome \in RaceOutcomes :
       LET w == wall + tick[1]
           c == cpu[t] + tick[2]
           e == RacingExit(threads[t], callback_period, callback, w, c, outcome)
       IN /\ wall' = w
          /\ cpu' = [cpu EXCEPT ![t] = c]
          /\ threads' = [threads EXCEPT ![t] = e.thread]
          /\ hist' = [hist EXCEPT ![t][Len(hist[t])].calls = @ \o OnThread(t, e.calls)]
          /\ scopes' = [scopes EXCEPT ![t] = PopBack(@)]
  /\ UNCHANGED << enabled, callback_period, callback, start, thread_use_count, aborted,
                  tmp_file, process_container, pc, mutex >>

\* ------------------------------------------------------- ProcessContainer
\* The module m's process_container holds the Process.
Holds(m) == process_container[m].process # NullProcess

\* shared_ptr::unique(): m's is the only shared_ptr to its Process.
Unique(m) ==
  /\ Holds(m)
  /\ \A o \in Modules \ {m} : process_container[o].process # process_container[m].process

\* The OS thread t can still run the program's code: main until the static
\* objects are destroyed, another thread while the Process exists.
Running(t) ==
  IF t = "main" THEN \A m \in Modules : Holds(m) ELSE \E m \in Modules : Holds(m)

\* ProcessContainer::get_process on the first use in module m, up to the
\* test of the file in create_or_lookup_process: if the file is there, the
\* address in it is that of the member process of the container that wrote
\* it, and the shared_ptr found there is copied; if not, the container goes
\* on to create the Process.
get_process_lookup(m) ==
  /\ ~aborted
  /\ ~Holds(m)
  /\ ~process_container[m].creating
  /\ IF tmp_file # NoFile
     THEN process_container' =
            [process_container EXCEPT ![m].process = process_container[tmp_file].process]
     ELSE process_container' = [process_container EXCEPT ![m].creating = TRUE]
  /\ UNCHANGED << enabled, callback_period, callback, start, threads, thread_use_count,
                  wall, cpu, scopes, hist, aborted, tmp_file, pc, mutex >>

\* The rest of create_or_lookup_process where the file was not there:
\* make_shared<Process>(), and the address of the member is written to the
\* file.
get_process_create(m) ==
  /\ ~aborted
  /\ process_container[m].creating
  /\ process_container' = [process_container EXCEPT ![m] = [process |-> m, creating |-> FALSE]]
  /\ tmp_file' = m
  /\ UNCHANGED << enabled, callback_period, callback, start, threads, thread_use_count,
                  wall, cpu, scopes, hist, aborted, pc, mutex >>

\* ~ProcessContainer of module m, at static destruction on the OS thread x
\* (whose thread_local thread_containers are destroyed before): the file is
\* removed if process.unique(); then the member process is destroyed, and
\* with the last shared_ptr the Process: ~Process() prints, and the
\* destruction of its member threads runs ~Thread for every Thread that is
\* still registered, on x and with the clocks x reads.  (The programs
\* modelled have one OS thread besides x.)
ProcessContainerDtor(m, x, D) ==
  /\ ~aborted
  /\ Holds(m)
  /\ ~Registered(x)
  /\ scopes[x] = << >>
  /\ Cardinality(DOMAIN threads) <= 1
  /\ IF Unique(m) /\ tmp_file = NoFile
     THEN \* assert(rc == 0): there is no file to remove
          /\ aborted' = TRUE
          /\ UNCHANGED << tmp_file, process_container, threads, thread_use_count,
                          wall, cpu, hist >>
     ELSE /\ tmp_file' = IF Unique(m) THEN NoFile ELSE tmp_file
          /\ process_container' = [process_container EXCEPT ![m].process = NullProcess]
          /\ IF Unique(m) /\ threads # << >>
             THEN LET u == CHOOSE t \in DOMAIN threads : TRUE
                  IN IF ThreadDtor_assert(threads[u])
                     THEN \E tick \in D :
                            LET w == wall + tick[1]
                                c == cpu[x] + tick[2]
                                d == ThreadDtor(threads[u], callback_period, callback, w, c)
                            IN /\ wall' = w
                               /\ cpu' = [cpu EXCEPT ![x] = c]
                               /\ threads' = << >>
                               /\ thread_use_count' = << >>
                               /\ hist' = [hist EXCEPT ![u][Len(hist[u])] =
                                     [@ EXCEPT !.calls = @ \o OnThread(x, d.calls),
                                               !.over = TRUE,
                                               !.left = d.left]]
                               /\ aborted' = FALSE
                     ELSE /\ aborted' = TRUE
                          /\ UNCHANGED << threads, thread_use_count, wall, cpu, hist >>
             ELSE UNCHANGED << threads, thread_use_count, wall, cpu, hist, aborted >>
  /\ UNCHANGED << enabled, callback_period, callback, start, scopes, pc, mutex >>

\* ------------------------------------------------------------- cpu_timer
\* The generation before scope_timer (include/cpu_timer_internal.hpp): Frame,
\* Stack, Process with flush(), and a callback that is a std::function handed
\* the batch.  Its Process is held in the same variables: threads is
\* thread_to_stack, callback_period is log_period, scopes are the live
\* StackFrameContexts.  (file_name, line and info of a Frame are carried like
\* function_name and are left out.)
NoCallback == "empty"

FunctionNames == {"trace1"}

Frame(process_start_, function_name_, caller_start_index_) ==
  [ process_start |-> process_start_,
    function_name |-> function_name_,
    caller_start_index |-> caller_start_index_,
    start_wall |-> 0, start_cpu |-> 0, start_index |-> 0,
    stop_wall |-> 0, stop_cpu |-> 0, stop_index |-> 0 ]

start_timer(fr, start_index_, w, c) ==
  [fr EXCEPT !.start_index = start_index_, !.start_wall = w, !.start_cpu = c]

stop_timer_assert(fr) == fr.stop_cpu = 0 /\ fr.start_cpu # 0

stop_timer(fr, stop_index_, w, c) ==
  [fr EXCEPT !.stop_wall = w, !.stop_cpu = c, !.stop_index = stop_index_]

NewStack ==
  [stack |-> << >>, finished |-> << >>, start_index |-> 0, stop_index |-> 0, last_log |-> 0]

Stack_enter_stack_frame(st, process_start_, function_name, w, c) ==
  LET caller == IF st.stack = << >> THEN 0 ELSE Back(st.stack).start_index
      fr == Frame(process_start_, function_name, caller)
  IN [st EXCEPT !.stack = Append(st.stack, start_timer(fr, st.start_index, w, c)),
                !.start_index = st.start_index + 1]

\* The callback called with the batch: the record of the call, with the
\* member function it was called from.
Batch(st, cb, from, finished_buffer) ==
  [ hook |-> from, cb |-> cb, depth |-> Len(st.stack),
    avail |-> finished_buffer, drained |-> finished_buffer ]

flush_with_locks(st, cb, from) ==
  [ st |-> [st EXCEPT !.finished = << >>],
    calls |-> IF cb # NoCallback THEN << Batch(st, cb, from, st.finished) >> ELSE << >> ]

Stack_flush(st, cb, from) ==
  IF st.finished # << >> THEN flush_with_locks(st, cb, from)
  ELSE [st |-> st, calls |-> << >>]

Stack_maybe_flush(st, period, cb) ==
  IF st.finished # << >>
     /\ period # 0
     /\ Back(st.finished).stop_cpu > st.last_log + period
  THEN flush_with_locks(st, cb, "maybe_flush")
  ELSE [st |-> st, calls |-> << >>]

Stack_exit_stack_frame_assert(st, function_name) ==
  /\ st.stack # << >>
  /\ stop_timer_assert(Back(st.stack))
  /\ function_name = Back(st.stack).function_name

Stack_exit_stack_frame(st, period, cb, w, c) ==
  LET fr == stop_timer(Back(st.stack), st.stop_index, w, c)
      st1 == [st EXCEPT !.stop_index = st.stop_index + 1,
                        !.finished = Append(st.finished, fr),
                        !.stack = PopBack(st.stack)]
  IN Stack_maybe_flush(st1, period, cb)

StackCtor(process_start_, w, c) ==
  Stack_enter_stack_frame(NewStack, process_start_, "nullptr", w, c)

StackDtor_assert(st) ==
  Stack_exit_stack_frame_assert(st, "nullptr") /\ Len(st.stack) = 1

\* Stack::~Stack: the root is exited, then flush(); nothing is left in
\* finished (what flush_with_locks swaps out with no callback set is
\* destroyed undelivered).
StackDtor(st, period, cb, w, c) ==
  LET e == Stack_exit_stack_frame(st, period, cb, w, c)
      f == Stack_flush(e.st, cb, "~Stack")
  IN [calls |-> e.calls \o f.calls, left |-> f.st.finished]

\* Process::Process of cpu_timer: no callback is set.
InitFlush ==
  /\ \E tick \in Steady : wall = tick[1] /\ start = tick[1]
  /\ enabled = FALSE
  /\ callback_period = 0
  /\ callback = NoCallback
  /\ threads = << >>
  /\ thread_use_count = << >>
  /\ cpu = [t \in Tids |-> 0]
  /\ scopes = [t \in Tids |-> << >>]
  /\ hist = [t \in Tids |-> << >>]
  /\ aborted = FALSE
  /\ tmp_file = "exe"
  /\ process_container = [m \in Modules |-> [process |-> "exe", creating |-> FALSE]]
  /\ pc = NoCalls
  /\ mutex = Unlocked

Process_set_callback ==
  /\ ~aborted
  /\ \E k \in {NoCallback, "function"} : callback' = k
  /\ UNCHANGED << enabled, callback_period, start, threads, thread_use_count,
                  wall, cpu, scopes, hist, aborted, tmp_file, process_container, pc, mutex >>

Process_create_stack(t, D) ==
  /\ ~aborted
  /\ UseCount(t) < 1
  /\ thread_use_count' = Put(thread_use_count, t, UseCount(t) + 1)
  /\ IF ~Registered(t)
     THEN /\ hist[t] = << >>
          /\ \E tick \in D :
               LET w == wall + tick[1]
                   c == cpu[t] + tick[2]
                   st == StackCtor(start, w, c)
               IN /\ wall' = w
                  /\ cpu' = [cpu EXCEPT ![t] = c]
                  /\ threads' = Put(threads, t, st)
                  /\ hist' = [hist EXCEPT ![t] = Append(@,
                        [NewLife EXCEPT !.entered = << Back(st.stack) >>])]
     ELSE UNCHANGED << threads, wall, cpu, hist >>
  /\ UNCHANGED << enabled, callback_period, callback, start, scopes, aborted,
                  tmp_file, process_container, pc, mutex >>

Process_delete_stack(t, D) ==
  /\ ~aborted
  /\ scopes[t] = << >>
  /\ Registered(t)
  /\ IF UseCount(t) - 1 = 0
     THEN IF StackDtor_assert(threads[t])
          THEN \E tick \in D :
                 LET w == wall + tick[1]
                     c == cpu[t] + tick[2]
                     d == StackDtor(threads[t], callback_period, callback, w, c)
                 IN /\ wall' = w
                    /\ cpu' = [cpu EXCEPT ![t] = c]
                    /\ threads' = Erase(threads, t)
                    /\ thread_use_count' = Put(thread_use_count, t, 0)
                    /\ hist' = [hist EXCEPT ![t][Len(hist[t])] =
                          [@ EXCEPT !.calls = @ \o OnThread(t, d.calls),
                                    !.over = TRUE,
                                    !.left = d.left]]
                    /\ aborted' = FALSE
          ELSE /\ aborted' = TRUE
               /\ UNCHANGED << threads, thread_use_count, wall, cpu, hist >>
     ELSE /\ thread_use_count' = Put(thread_use_count, t, UseCount(t) - 1)
          /\ UNCHANGED << threads, wall, cpu, hist, aborted >>
  /\ UNCHANGED << enabled, callback_period, callback, start, scopes,
                  tmp_file, process_container, pc, mutex >>

StackFrameContext(is_enabled, function_name_) ==
  [enabled |-> is_enabled, function_name |-> function_name_]

StackFrameContextCtor(t, D, frames) ==
  /\ ~aborted
  /\ Registered(t)
  /\ \E fn \in FunctionNames :
       /\ scopes' = [scopes EXCEPT ![t] = Append(@, StackFrameContext(enabled, fn))]
       /\ IF enabled
          THEN /\ threads[t].start_index < frames
               /\ \E tick \in D :
                    LET w == wall + tick[1]
                        c == cpu[t] + tick[2]
                        st == Stack_enter_stack_frame(threads[t], start, fn, w, c)
                    IN /\ wall' = w
                       /\ cpu' = [cpu EXCEPT ![t] = c]
                       /\ threads' = [threads EXCEPT ![t] = st]
                       /\ hist' = [hist EXCEPT ![t][Len(hist[t])].entered =
                                     Append(@, Back(st.stack))]
          ELSE /\ Cardinality({i \in DOMAIN scopes[t] : ~scopes[t][i].enabled}) < MaxIdle
               /\ UNCHANGED << threads, wall, cpu, hist >>
  /\ UNCHANGED << enabled, callback_period, callback, start, thread_use_count, aborted,
                  tmp_file, process_container, pc, mutex >>

StackFrameContextDtor(t, D) ==
  /\ ~aborted
  /\ Registered(t)
  /\ scopes[t] # << >>
  /\ IF Back(scopes[t]).enabled
     THEN IF Stack_exit_stack_frame_assert(threads[t], Back(scopes[t]).function_name)
          THEN \E tick \in D :
                 LET w == wall + tick[1]
                     c == cpu[t] + tick[2]
                     e == Stack_exit_stack_frame(threads[t], callback_period, callback, w, c)
                 IN /\ wall' = w
                    /\ cpu' = [cpu EXCEPT ![t] = c]
                    /\ threads' = [threads EXCEPT ![t] = e.st]
                    /\ hist' = [hist EXCEPT ![t][Len(hist[t])].calls = @ \o OnThread(t, e.calls)]
                    /\ scopes' = [scopes EXCEPT ![t] = PopBack(@)]
                    /\ aborted' = FALSE
          ELSE /\ aborted' = TRUE
               /\ UNCHANGED << threads, wall, cpu, hist, scopes >>
     ELSE /\ scopes' = [scopes EXCEPT ![t] = PopBack(@)]
          /\ UNCHANGED << threads, wall, cpu, hist, aborted >>
  /\ UNCHANGED << enabled, callback_period, callback, start, thread_use_count,
                  tmp_file, process_container, pc, mutex >>

\* Process::flush() called on the OS thread x while no thread is inside
\* exit_stack_frame: Stack::flush() of every registered Stack.  (A call that
\* finds every finished empty changes nothing and is left out.)
Process_flush(x) ==
  /\ ~aborted
  /\ \E t \in DOMAIN threads : threads[t].finished # << >>
  /\ threads' = [t \in DOMAIN threads |-> Stack_flush(threads[t], callback, "Process::flush").st]
  /\ hist' = [t \in Tids |->
                IF Registered(t)
                THEN [hist[t] EXCEPT ![Len(hist[t])].calls =
                        @ \o OnThread(x, Stack_flush(threads[t], callback, "Process::flush").calls)]
                ELSE hist[t]]
  /\ UNCHANGED << enabled, callback_period, callback, start, thread_use_count,
                  wall, cpu, scopes, aborted, tmp_file, process_container, pc, mutex >>

\* exit_stack_frame on the owning thread overlapped by the Stack::flush() of
\* a Process::flush() on another thread.  flush() and maybe_flush() hold
\* finished_mutex, but the lock_guard around finished.emplace_back is
\* commented out: emplace_back and the swap in flush_with_locks are
\* unsynchronised accesses to the same container, a data race, with the
\* outcomes of RaceOutcomes.
Stack_RacingExit(st, period, cb, w, c, outcome) ==
  LET fr == stop_timer(Back(st.stack), st.stop_index, w, c)
      popped == [st EXCEPT !.stop_index = st.stop_index + 1, !.stack = PopBack(st.stack)]
      finished_buffer == IF outcome \in {"before", "lost"} THEN st.finished
                         ELSE Append(st.finished, fr)
      kept == IF outcome \in {"before", "both"} THEN << fr >> ELSE << >>
      m == Stack_maybe_flush([popped EXCEPT !.finished = kept], period, cb)
  IN [ st |-> m.st,
       flushed |-> IF cb # NoCallback
                   THEN << Batch(popped, cb, "Process::flush", finished_buffer) >>
                   ELSE << >>,
       calls |-> m.calls ]

\* Process::flush() on the OS thread x while the owning thread t is inside
\* the exit_stack_frame of its innermost StackFrameContext, with something
\* already in t's finished.
RacingFlush(x, t, D) ==
  /\ ~aborted
  /\ x # t
  /\ Registered(t)
  /\ scopes[t] # << >>
  /\ Back(scopes[t]).enabled
  /\ Stack_exit_stack_frame_assert(threads[t], Back(scopes[t]).function_name)
  /\ threads[t].finished # << >>
  /\ \E tick \in D, outcome \in RaceOutcomes :
       LET w == wall + tick[1]
           c == cpu[t] + tick[2]
           e == Stack_RacingExit(threads[t], callback_period, callback, w, c, outcome)
       IN /\ wall' = w
          /\ cpu' = [cpu EXCEPT ![t] = c]
          /\ threads' = [u \in DOMAIN threads |->
                           IF u = t THEN e.st
                           ELSE Stack_flush(threads[u], callback, "Process::flush").st]
          /\ hist' = [u \in Tids |->
                        IF u = t
                        THEN [hist[u] EXCEPT ![Len(hist[u])].calls =
                                @ \o OnThread(x, e.flushed) \o OnThread(t, e.calls)]
                        ELSE IF Registered(u)
                        THEN [hist[u] EXCEPT ![Len(hist[u])].calls =
                                @ \o OnThread(x, Stack_flush(threads[u], callback, "Process::flush").calls)]
                        ELSE hist[u]]
          /\ scopes' = [scopes EXCEPT ![t] = PopBack(@)]
  /\ UNCHANGED << enabled, callback_period, callback, start, thread_use_count, aborted,
                  tmp_file, process_container, pc, mutex >>

\* ---------------------------------------------------------- specifications
\* One instrumented OS thread, a clock that advances by one between reads.
Init == Init0(Steady)

Next ==
  \/ SetEnabled
  \/ SetCallbackPeriod(Periods(Period))
  \/ SetCallback
  \/ \E t \in MainOnly : CreateThread(t, Steady, 1, MaxUse)
  \/ \E t \in MainOnly : DeleteThread(t, Steady)
  \/ \E t \in MainOnly : ScopeTimerCtor(t, Steady, PlainArgs, MaxFrames)
  \/ \E t \in MainOnly : ScopeTimerDtor(t, Steady)

Spec == Init /\ [][Next]_vars


\* One instrumented OS thread in a one-module program that is configured
\* before its first Thread is constructed, and a clock of which two reads may
\* return the same value.
InitClock == Init0(Coarse)

Unstarted == \A t \in Tids : hist[t] = << >>

NextClock ==
  \/ Unstarted /\ SetEnabled
  \/ Unstarted /\ SetCallbackPeriod(Periods(ShortPeriod))
  \/ Unstarted /\ SetCallback
  \/ \E t \in MainOnly : CreateThread(t, Coarse, 1, 1)
  \/ \E t \in MainOnly : DeleteThread(t, Coarse)
  \/ \E t \in MainOnly : ScopeTimerCtor(t, Coarse, PlainArgs, MaxTimed)
  \/ \E t \in MainOnly : ScopeTimerDtor(t, Coarse)

SpecClock == InitClock /\ [][NextClock]_vars


\* One OS thread that runs f1, which calls f2, which calls f3 twice, each f3
\* calling f4; every function opens with a SCOPE_TIMER.  The program enables
\* the timers before the thread starts; the policy and the callback may
\* change at any time.  A step of the thread is known by the index counter
\* and the depth of its Thread: << index, depth, function entered >>, and
\* << index, depth >> where a function returns.
ScenarioEnters ==
  { << 1, 1, "f1" >>, << 2, 2, "f2" >>, << 3, 3, "f3" >>, << 4, 4, "f4" >>,
    << 5, 3, "f3" >>, << 6, 4, "f4" >> }

ScenarioExits ==
  { << 5, 5 >>, << 5, 4 >>, << 7, 5 >>, << 7, 4 >>, << 7, 3 >>, << 7, 2 >> }

ScenarioEnd == << 7, 1 >>

ScenarioArgs(f) == [name |-> "", info |-> "null", source_loc |-> f]

At(t, i, d) ==
  Registered(t) /\ threads[t].index = i /\ Len(threads[t].stack) = d

InitScenario == Init0(Steady)

NextScenario ==
  \/ Unstarted /\ SetEnabled
  \/ SetCallbackPeriod(Periods(Period))
  \/ SetCallback
  \/ \E t \in MainOnly : enabled /\ CreateThread(t, Steady, 1, 1)
  \/ \E t \in MainOnly, e \in ScenarioEnters :
       At(t, e[1], e[2]) /\ ScopeTimerCtor(t, Steady, {ScenarioArgs(e[3])}, e[1] + 1)
  \/ \E t \in MainOnly, x \in ScenarioExits :
       At(t, x[1], x[2]) /\ ScopeTimerDtor(t, Steady)
  \/ \E t \in MainOnly :
       At(t, ScenarioEnd[1], ScenarioEnd[2]) /\ DeleteThread(t, Steady)

SpecScenario == InitScenario /\ [][NextScenario]_vars

\* Two OS threads: main, and a worker that a scope on main spawns.  The
\* program is configured before its first Thread is constructed; the two
\* threads' calls interleave freely.
InitThreads == Init0(Steady)

Spawning == scopes["main"] # << >>

NextThreads ==
  \/ Unstarted /\ SetEnabled
  \/ Unstarted /\ SetCallbackPeriod(Periods(Period))
  \/ Unstarted /\ SetCallback
  \/ \E t \in Tids : (t = "worker" => Spawning) /\ CreateThread(t, Steady, 1, 1)
  \/ \E t \in Tids : DeleteThread(t, Steady)
  \/ \E t \in Tids : ScopeTimerCtor(t, Steady, PlainArgs, MaxShared)
  \/ \E t \in Tids : ScopeTimerDtor(t, Steady)

SpecThreads == InitThreads /\ [][NextThreads]_vars

\* One instrumented OS thread and a monitoring thread that polls its Thread.
InitPoller == Init0(Steady)

NextPoller ==
  \/ Unstarted /\ SetEnabled
  \/ Unstarted /\ SetCallbackPeriod(Periods(Period))
  \/ Unstarted /\ SetCallback
  \/ \E t \in MainOnly : CreateThread(t, Steady, 1, 1)
  \/ \E t \in MainOnly : DeleteThread(t, Steady)
  \/ \E t \in MainOnly : ScopeTimerCtor(t, Steady, PlainArgs, MaxTimed)
  \/ \E t \in MainOnly : ScopeTimerDtor(t, Steady)
  \/ \E t \in MainOnly : PollerDrain(t)
  \/ \E t \in MainOnly : RacingDtor(t, Steady)

SpecPoller == InitPoller /\ [][NextPoller]_vars

\* One instrumented OS thread whose policy and callback change at any time,
\* and a consumer that pulls with drain_finished() between two calls of the
\* owning thread.
NextRetain ==
  \/ SetEnabled
  \/ SetCallbackPeriod(Periods(Period))
  \/ SetCallback
  \/ \E t \in MainOnly : CreateThread(t, Steady, 1, 1)
  \/ \E t \in MainOnly : DeleteThread(t, Steady)
  \/ \E t \in MainOnly : ScopeTimerCtor(t, Steady, PlainArgs, MaxTimed)
  \/ \E t \in MainOnly : ScopeTimerDtor(t, Steady)
  \/ \E t \in MainOnly : PollerDrain(t)

SpecRetain == Init /\ [][NextRetain]_vars

\* ------------------------------------------------------ statement by statement
\* The same member functions, one statement at a time.  pc[x].todo holds the
\* statements the OS thread x has still to run in the call it is in, each
\* with the id of the Thread it works on; pc[x].loc holds the locals of
\* enter_stack_frame.  A statement that calls a function puts the callee's
\* statements in front of the rest.

\* Thread::enter_stack_frame
EnterOrder == << "index++", "caller", "stack.emplace_back", "start_timers" >>

\* maybe_flush that returns with finished_mutex held.
MaybeFlushOrder_keeps_lock == << "lock finished_mutex", "maybe_flush" >>

\* Thread::maybe_flush: the lock_guard, the body, the lock_guard's destructor
MaybeFlushOrder == << "lock finished_mutex", "maybe_flush", "unlock finished_mutex" >>

\* exit_stack_frame that evaluates the flush policy before anything else.
ExitOrder_flush_first ==
  MaybeFlushOrder \o << "assert", "stop_timers", "finished.emplace_back", "pop_back" >>

\* Thread::exit_stack_frame
ExitOrder ==
  << "assert", "stop_timers", "finished.emplace_back", "pop_back" >> \o MaybeFlushOrder

\* Thread::Thread
ThreadCtorOrder == << "Thread" >> \o EnterOrder \o << "thread_start" >>

\* Thread::~Thread, then the erase of the map entry
ThreadDtorOrder == ExitOrder \o << "assert stack.empty", "thread_stop", "erase" >>

\* Process::create_thread
CreateThreadOrder ==
  << "lock threads_mutex", "threads.count", "thread_use_count++", "unlock threads_mutex" >>

\* Process::delete_thread without the test threads.count(thread) != 0.
DeleteThreadOrder_unguarded ==
  << "lock threads_mutex", "thread_use_count--", "unlock threads_mutex" >>

\* Process::delete_thread
DeleteThreadOrder ==
  << "lock threads_mutex", "if threads.count", "unlock threads_mutex" >>

\* cpu_timer: Stack::exit_stack_frame; Stack::flush() called from `from`;
\* Stack::~Stack, then the erase of the map entry; Process::flush().  (Its
\* create_stack and delete_stack have the statements of create_thread and
\* delete_thread, and thread_to_stack_mutex is held in mutex.threads_mutex.)
StackExitOrder ==
  << "Stack::exit_stack_frame", "lock finished_mutex", "Stack::maybe_flush",
     "unlock finished_mutex" >>

StackFlushOrder(from) == << "lock finished_mutex", from, "unlock finished_mutex" >>

StackDtorOrder ==
  StackExitOrder \o << "assert stack.empty" >> \o StackFlushOrder("~Stack")
    \o << "assert finished.empty", "erase" >>

ProcessFlushOrder == << "lock threads_mutex", "for", "unlock threads_mutex" >>

\* Which library the program uses: cpu_timer's callback is a std::function.
IsCpuTimer == callback \in {NoCallback, "function"}

\* The statements ops, to be run on the Thread registered under t.
On(t, ops) == [i \in 1 .. Len(ops) |-> << ops[i], t >>]

\* A hook that is itself instrumented: it constructs a ScopeTimer and
\* destroys it before it returns.
Instrumented == "InstrumentedCallback"

\* The keys of an unordered_map in the order an iteration visits them.
Ordered(keys) ==
  LET RECURSIVE seq(_)
      seq(ks) == IF ks = {} THEN << >>
                 ELSE LET k == CHOOSE y \in ks : TRUE IN << k >> \o seq(ks \ {k})
  IN seq(keys)

\* The OS thread x can run the statement op on the Thread of t now: a lock
\* statement waits while another thread holds the mutex.  std::mutex::lock
\* by the thread that holds the mutex is undefined: a build blocks for ever
\* (the statement is never run) or throws std::system_error, which out of a
\* destructor ends in std::terminate (the statement is run and aborts).
CanRun(op, t, x) ==
  CASE op = "lock threads_mutex" -> mutex.threads_mutex.owner \in {"none", x}
    [] op = "lock finished_mutex" -> mutex.finished_mutex[t] \in {"none", x}
    [] OTHER -> TRUE

\* What the statement op leaves, run by the OS thread x on the Thread of t;
\* w and c are what the clocks return if it reads them.  more are the
\* statements of the function it calls.
Run(op, t, x, w, c) ==
  LET loc == pc[x].loc
      th == threads[t]
      S == [ threads |-> threads, use |-> thread_use_count, hist |-> hist,
             mutex |-> mutex, loc |-> loc, more |-> << >>,
             aborted |-> FALSE, read |-> FALSE ]
      WithThread(v) == [S EXCEPT !.threads = [threads EXCEPT ![t] = v]]
      WithCalls(v, calls) ==
        [S EXCEPT !.threads = [threads EXCEPT ![t] = v],
                  !.hist = [hist EXCEPT ![t][Len(hist[t])].calls = @ \o OnThread(x, calls)]]
      Abort == [S EXCEPT !.aborted = TRUE]
  IN CASE op = "lock threads_mutex" ->
            [S EXCEPT !.mutex.threads_mutex = [owner |-> x, depth |-> @.depth + 1]]
       [] op = "unlock threads_mutex" ->
            [S EXCEPT !.mutex.threads_mutex =
               IF @.depth = 1 THEN [owner |-> "none", depth |-> 0]
               ELSE [owner |-> x, depth |-> @.depth - 1]]
       [] op = "lock finished_mutex" ->
            IF mutex.finished_mutex[t] = x THEN Abort
            ELSE [S EXCEPT !.mutex.finished_mutex[t] = x]
       [] op = "unlock finished_mutex" ->
            [S EXCEPT !.mutex.finished_mutex[t] = "none"]
       [] op = "threads.count" ->
            IF Registered(t) THEN S
            ELSE IF IsCpuTimer THEN [S EXCEPT !.more = On(t, << "Stack" >>)]
            ELSE [S EXCEPT !.more = On(t, ThreadCtorOrder)]
       [] op = "Stack" ->
            LET st == StackCtor(start, w, c)
            IN [S EXCEPT !.threads = Put(threads, t, st),
                         !.hist = [hist EXCEPT ![t] = Append(@,
                                     [NewLife EXCEPT !.entered = << Back(st.stack) >>])],
                         !.read = TRUE]
       [] op = "Stack::enter_stack_frame" ->
            LET st == Stack_enter_stack_frame(th, start, loc.args.name, w, c)
            IN [S EXCEPT !.threads = [threads EXCEPT ![t] = st],
                         !.hist = [hist EXCEPT ![t][Len(hist[t])].entered =
                                     Append(@, Back(st.stack))],
                         !.read = TRUE]
       [] op = "Stack::exit_stack_frame" ->
            IF Stack_exit_stack_frame_assert(th, loc.args.name)
            THEN [WithThread([th EXCEPT
                    !.stop_index = th.stop_index + 1,
                    !.finished = Append(@, stop_timer(Back(th.stack), th.stop_index, w, c)),
                    !.stack = PopBack(@)])
                    EXCEPT !.read = TRUE]
            ELSE Abort
       [] op = "Stack::maybe_flush" ->
            LET m == Stack_maybe_flush(th, callback_period, callback)
            IN WithCalls(m.st, m.calls)
       [] op \in {"Process::flush", "~Stack"} ->
            LET m == Stack_flush(th, callback, op)
            IN WithCalls(m.st, m.calls)
       [] op = "assert finished.empty" ->
            IF th.finished = << >> THEN S ELSE Abort
       [] op = "for" ->
            [S EXCEPT !.more = Concat([i \in 1 .. Len(Ordered(DOMAIN threads)) |->
                                  On(Ordered(DOMAIN threads)[i], StackFlushOrder("Process::flush"))])]
       [] op = "Thread" ->
            [S EXCEPT !.threads = Put(threads, t, NewThread),
                      !.hist = [hist EXCEPT ![t] = Append(@, NewLife)],
                      !.loc.args = RootArgs]
       [] op = "index++" ->
            [WithThread([th EXCEPT !.index = th.index + 1])
               EXCEPT !.loc = [loc EXCEPT !.this_index = th.index,
                                          !.caller_index = 0,
                                          !.prev_index = 0]]
       [] op = "caller" ->
            IF th.stack # << >>
            THEN [WithThread([th EXCEPT !.stack[Len(th.stack)].youngest_child_index =
                                          loc.this_index])
                    EXCEPT !.loc = [loc EXCEPT !.caller_index = Back(th.stack).index,
                                               !.prev_index = Back(th.stack).youngest_child_index]]
            ELSE S
       [] op = "stack.emplace_back" ->
            WithThread([th EXCEPT !.stack = Append(@,
              Timer(start, loc.args, loc.this_index, loc.caller_index, loc.prev_index))])
       [] op = "start_timers" ->
            IF start_timers_assert(Back(th.stack))
            THEN LET tm == start_timers(Back(th.stack), w, c)
                 IN [S EXCEPT !.threads = [threads EXCEPT ![t].stack[Len(th.stack)] = tm],
                              !.hist = [hist EXCEPT ![t][Len(hist[t])].entered = Append(@, tm)],
                              !.read = TRUE]
            ELSE Abort
       [] op = "thread_start" ->
            LET h == Hook(callback, "thread_start", th)
            IN WithCalls(h.thread, << h.call >>)
       [] op = "thread_use_count++" ->
            [S EXCEPT !.use = Put(thread_use_count, t, UseCount(t) + 1)]
       [] op = "assert" ->
            IF th.stack # << >> THEN S ELSE Abort
       [] op = "stop_timers" ->
            IF stop_timers_assert(Back(th.stack))
            THEN [WithThread([th EXCEPT !.stack[Len(th.stack)] = stop_timers(@, w, c)])
                    EXCEPT !.read = TRUE]
            ELSE Abort
       [] op = "finished.emplace_back" ->
            WithThread([th EXCEPT !.finished = Append(@, Back(th.stack))])
       [] op = "pop_back" ->
            WithThread([th EXCEPT !.stack = PopBack(@)])
       [] op = "maybe_flush" ->
            LET m == maybe_flush(th, callback_period, callback)
                nested == m.calls # << >> /\ callback = Instrumented /\ enabled
            IN [WithCalls(m.thread, m.calls)
                  EXCEPT !.more = IF nested THEN On(t, EnterOrder \o ExitOrder) ELSE << >>,
                         !.loc.args = IF nested THEN CHOOSE a \in PlainArgs : TRUE ELSE @]
       [] op = "if threads.count" ->
            IF Registered(t) THEN [S EXCEPT !.more = On(t, << "thread_use_count--" >>)]
            ELSE S
       [] op = "thread_use_count--" ->
            LET count == (UseCount(t) + SizeSpan - 1) % SizeSpan
            IN [S EXCEPT !.use = Put(thread_use_count, t, count),
                         !.more = IF count # 0 THEN << >>
                                  ELSE IF IsCpuTimer THEN On(t, StackDtorOrder)
                                  ELSE On(t, ThreadDtorOrder),
                         !.loc.args = [RootArgs EXCEPT !.name = "nullptr"]]
       [] op = "assert stack.empty" ->
            IF th.stack = << >> THEN S ELSE Abort
       [] op = "thread_stop" ->
            LET h == Hook(callback, "thread_stop", th)
            IN WithCalls(h.thread, << h.call >>)
       [] op = "erase" ->
            [S EXCEPT !.threads = Erase(threads, t),
                      !.hist = [hist EXCEPT ![t][Len(hist[t])] =
                                  [@ EXCEPT !.over = TRUE, !.left = th.finished]]]

\* The OS thread x is not inside a call of the library.
Returned(x) == pc[x].todo = << >>

\* The OS thread x runs the next statement of the call it is in.
Statement(x, D) ==
  /\ ~aborted
  /\ ~Returned(x)
  /\ LET op == Head(pc[x].todo)[1]
         t == Head(pc[x].todo)[2]
     IN /\ CanRun(op, t, x)
        /\ \E tick \in D :
             LET w == wall + tick[1]
                 c == cpu[x] + tick[2]
                 r == Run(op, t, x, w, c)
             IN /\ threads' = r.threads
                /\ thread_use_count' = r.use
                /\ hist' = r.hist
                /\ mutex' = r.mutex
                /\ aborted' = r.aborted
                /\ wall' = IF r.read THEN w ELSE wall
                /\ cpu' = IF r.read THEN [cpu EXCEPT ![x] = c] ELSE cpu
                /\ pc' = [pc EXCEPT ![x] =
                            IF r.aborted THEN @
                            ELSE [todo |-> r.more \o Tail(@.todo), loc |-> r.loc]]
  /\ UNCHANGED << enabled, callback_period, callback, start, scopes,
                  tmp_file, process_container >>

\* The OS thread x calls into the library: the statements ops are to run.
Call(x, ops, args) ==
  pc' = [pc EXCEPT ![x] = [todo |-> On(x, ops), loc |-> [@.loc EXCEPT !.args = args]]]

\* ThreadContainer's constructor calls Process::create_thread.
BeginCreateThread(x, lives, uses) ==
  /\ ~aborted
  /\ Returned(x)
  /\ UseCount(x) < uses
  /\ ~Registered(x) => Len(hist[x]) < lives
  /\ Call(x, CreateThreadOrder, RootArgs)
  /\ UNCHANGED << enabled, callback_period, callback, start, threads, thread_use_count,
                  wall, cpu, scopes, hist, aborted, tmp_file, process_container, mutex >>

\* ThreadContainer's destructor calls Process::delete_thread.
BeginDeleteThread(x) ==
  /\ ~aborted
  /\ Returned(x)
  /\ scopes[x] = << >>
  /\ Registered(x)
  /\ Call(x, DeleteThreadOrder, RootArgs)
  /\ UNCHANGED << enabled, callback_period, callback, start, threads, thread_use_count,
                  wall, cpu, scopes, hist, aborted, tmp_file, process_container, mutex >>

\* ScopeTimer::ScopeTimer reads is_enabled() and, if enabled, calls
\* enter_stack_frame.
BeginScopeTimerCtor(x, A, frames) ==
  /\ ~aborted
  /\ Returned(x)
  /\ Registered(x)
  /\ scopes' = [scopes EXCEPT ![x] = Append(@, ScopeTimer(enabled, threads[x]))]
  /\ IF enabled
     THEN /\ threads[x].index < frames
          /\ \E args \in A : Call(x, EnterOrder, args)
     ELSE /\ Cardinality({i \in DOMAIN scopes[x] : ~scopes[x][i].enabled}) < MaxIdle
          /\ UNCHANGED pc
  /\ UNCHANGED << enabled, callback_period, callback, start, threads, thread_use_count,
                  wall, cpu, hist, aborted, tmp_file, process_container, mutex >>

\* ScopeTimer::~ScopeTimer of the innermost live ScopeTimer calls
\* exit_stack_frame if its constructor found the Process enabled.
BeginScopeTimerDtor(x) ==
  /\ ~aborted
  /\ Returned(x)
  /\ Registered(x)
  /\ scopes[x] # << >>
  /\ scopes' = [scopes EXCEPT ![x] = PopBack(@)]
  /\ IF Back(scopes[x]).enabled
     THEN Call(x, ExitOrder, RootArgs)
     ELSE UNCHANGED pc
  /\ UNCHANGED << enabled, callback_period, callback, start, threads, thread_use_count,
                  wall, cpu, hist, aborted, tmp_file, process_container, mutex >>

\* cpu_timer: StackFrameContext's constructor and destructor, and a call
\* of Process::flush().
BeginStackFrameContextCtor(x, frames) ==
  /\ ~aborted
  /\ Returned(x)
  /\ Registered(x)
  /\ \E fn \in FunctionNames :
       /\ scopes' = [scopes EXCEPT ![x] = Append(@, StackFrameContext(enabled, fn))]
       /\ IF enabled
          THEN /\ threads[x].start_index < frames
               /\ Call(x, << "Stack::enter_stack_frame" >>, [RootArgs EXCEPT !.name = fn])
          ELSE /\ Cardinality({i \in DOMAIN scopes[x] : ~scopes[x][i].enabled}) < MaxIdle
               /\ UNCHANGED pc
  /\ UNCHANGED << enabled, callback_period, callback, start, threads, thread_use_count,
                  wall, cpu, hist, aborted, tmp_file, process_container, mutex >>

BeginStackFrameContextDtor(x) ==
  /\ ~aborted
  /\ Returned(x)
  /\ Registered(x)
  /\ scopes[x] # << >>
  /\ scopes' = [scopes EXCEPT ![x] = PopBack(@)]
  /\ IF Back(scopes[x]).enabled
     THEN Call(x, StackExitOrder, [RootArgs EXCEPT !.name = Back(scopes[x]).function_name])
     ELSE UNCHANGED pc
  /\ UNCHANGED << enabled, callback_period, callback, start, threads, thread_use_count,
                  wall, cpu, hist, aborted, tmp_file, process_container, mutex >>

BeginProcessFlush(x) ==
  /\ ~aborted
  /\ Returned(x)
  /\ Call(x, ProcessFlushOrder, RootArgs)
  /\ UNCHANGED << enabled, callback_period, callback, start, threads, thread_use_count,
                  wall, cpu, scopes, hist, aborted, tmp_file, process_container, mutex >>

\* Two OS threads that are created and torn down, main also running scopes,
\* statement by statement, in a program that uses scope_timer or one that
\* uses cpu_timer (where the other thread also calls Process::flush()),
\* configured before the first Thread is constructed.  The run is shorter
\* than one tick of the wall clock (the timestamps play no part in the
\* locking).  The scheduler is fair to each thread, also to one that waits
\* for a mutex.
InitLocks == Init \/ InitFlush

NextLocks ==
  \/ Unstarted /\ SetEnabled
  \/ Unstarted /\ SetCallbackPeriod({1})
  \/ Unstarted /\ ~IsCpuTimer /\ SetCallback
  \/ Unstarted /\ IsCpuTimer /\ Process_set_callback
  \/ \E x \in Tids : BeginCreateThread(x, 1, 1)
  \/ \E x \in Tids : BeginDeleteThread(x)
  \/ \E x \in MainOnly : ~IsCpuTimer /\ enabled /\ BeginScopeTimerCtor(x, PlainArgs, MaxShared)
  \/ \E x \in MainOnly : ~IsCpuTimer /\ BeginScopeTimerDtor(x)
  \/ \E x \in MainOnly : IsCpuTimer /\ enabled /\ BeginStackFrameContextCtor(x, MaxShared)
  \/ \E x \in MainOnly : IsCpuTimer /\ BeginStackFrameContextDtor(x)
  \/ \E x \in Tids \ MainOnly : IsCpuTimer /\ BeginProcessFlush(x)
  \/ \E x \in Tids : Statement(x, WithinOneWallTick)

SpecLocks ==
  /\ InitLocks /\ [][NextLocks]_vars
  /\ \A x \in Tids : SF_vars(Statement(x, WithinOneWallTick))

\* One instrumented OS thread, statement by statement; the setters are
\* called from another thread at any moment.
NextSteps ==
  \/ SetEnabled
  \/ SetCallbackPeriod(Periods(Period))
  \/ SetCallback
  \/ \E x \in MainOnly : BeginCreateThread(x, 1, 1)
  \/ \E x \in MainOnly : BeginDeleteThread(x)
  \/ \E x \in MainOnly : BeginScopeTimerCtor(x, PlainArgs, MaxTimed)
  \/ \E x \in MainOnly : BeginScopeTimerDtor(x)
  \/ \E x \in MainOnly : Statement(x, Steady)

SpecSteps == Init /\ [][NextSteps]_vars

\* Process::set_callback with a callback object whose thread_in_situ is
\* itself instrumented.
SetInstrumentedCallback ==
  /\ ~aborted
  /\ callback' = Instrumented
  /\ UNCHANGED << enabled, callback_period, start, threads, thread_use_count,
                  wall, cpu, scopes, hist, aborted,
                  tmp_file, process_container, pc, mutex >>

\* The same program with the periods 0 and 1, which may install the
\* instrumented callback.
NextHook ==
  \/ SetEnabled
  \/ SetCallbackPeriod({0, 1})
  \/ SetInstrumentedCallback
  \/ \E x \in MainOnly : BeginCreateThread(x, 1, 1)
  \/ \E x \in MainOnly : BeginDeleteThread(x)
  \/ \E x \in MainOnly : BeginScopeTimerCtor(x, PlainArgs, MaxTimed)
  \/ \E x \in MainOnly : BeginScopeTimerDtor(x)
  \/ \E x \in MainOnly : Statement(x, Steady)

SpecHook == Init /\ [][NextHook]_vars

\* The program calls Process::delete_thread with the id of the OS thread x,
\* whether a Thread is registered under it or not.
BeginDeleteThreadCall(x) ==
  /\ ~aborted
  /\ Returned(x)
  /\ scopes[x] = << >>
  /\ Call(x, DeleteThreadOrder, RootArgs)
  /\ UNCHANGED << enabled, callback_period, callback, start, threads, thread_use_count,
                  wall, cpu, scopes, hist, aborted, tmp_file, process_container, mutex >>

\* Two OS threads that call create_thread and delete_thread with their own
\* id, in any number and order, statement by statement.
NextRegistry ==
  \/ \E x \in Tids : BeginCreateThread(x, MaxLives, MaxUse)
  \/ \E x \in Tids : BeginDeleteThreadCall(x)
  \/ \E x \in Tids : Statement(x, WithinOneWallTick)

SpecRegistry == Init /\ [][NextRegistry]_vars

\* OS threads that run one after the other and are given the same thread id
\* by the operating system, in a program of up to MaxUse modules that is
\* configured while no Thread exists.
InitReuse == Init0(Steady)

Idle == \A t \in Tids : ~Registered(t)

NextReuse ==
  \/ Idle /\ SetEnabled
  \/ Idle /\ SetCallbackPeriod(Periods(Period))
  \/ Idle /\ SetCallback
  \/ \E t \in MainOnly : CreateThread(t, Steady, MaxLives, MaxUse)
  \/ \E t \in MainOnly : DeleteThread(t, Steady)
  \/ \E t \in MainOnly : ScopeTimerCtor(t, Steady, PlainArgs, MaxShared)
  \/ \E t \in MainOnly : ScopeTimerDtor(t, Steady)

SpecReuse == InitReuse /\ [][NextReuse]_vars

\* Two OS threads, main and a detached worker that a scope on main spawns,
\* in a program of two modules that is configured before its first Thread is
\* constructed.  main may return, and the static objects be destroyed, while
\* the worker still runs.
InitExit == Init0(Steady)

NextExit ==
  \/ Unstarted /\ Running("main") /\ SetEnabled
  \/ Unstarted /\ Running("main") /\ SetCallbackPeriod(Periods(Period))
  \/ Unstarted /\ Running("main") /\ SetCallback
  \/ \E t \in Tids :
       Running(t) /\ (t = "worker" => Spawning) /\ CreateThread(t, Steady, 1, 1)
  \/ \E t \in Tids : Running(t) /\ DeleteThread(t, Steady)
  \/ \E t \in Tids : Running(t) /\ ScopeTimerCtor(t, Steady, PlainArgs, MaxShared)
  \/ \E t \in Tids : Running(t) /\ ScopeTimerDtor(t, Steady)
  \/ \E m \in Modules : ProcessContainerDtor(m, "main", Steady)

SpecExit == InitExit /\ [][NextExit]_vars

\* One instrumented OS thread whose program breaks the contract: besides its
\* ScopeTimers it calls exit_stack_frame() without a matching enter.
InitContract == Init0(Steady)

NextContract ==
  \/ Unstarted /\ SetEnabled
  \/ Unstarted /\ SetCallbackPeriod(Periods(Period))
  \/ Unstarted /\ SetCallback
  \/ \E t \in MainOnly : CreateThread(t, Steady, 1, 1)
  \/ \E t \in MainOnly : DeleteThread(t, Steady)
  \/ \E t \in MainOnly : ScopeTimerCtor(t, Steady, PlainArgs, MaxTimed)
  \/ \E t \in MainOnly : ScopeTimerDtor(t, Steady)
  \/ \E t \in MainOnly : UnmatchedExit(t, Steady)

SpecContract == InitContract /\ [][NextContract]_vars

\* One instrumented OS thread whose ScopeTimers are destroyed in any order.
InitNesting == Init0(Steady)

NextNesting ==
  \/ Unstarted /\ SetEnabled
  \/ Unstarted /\ SetCallbackPeriod(Periods(Period))
  \/ Unstarted /\ SetCallback
  \/ \E t \in MainOnly : CreateThread(t, Steady, 1, 1)
  \/ \E t \in MainOnly : DeleteThread(t, Steady)
  \/ \E t \in MainOnly : ScopeTimerCtor(t, Steady, PlainArgs, MaxFrames)
  \/ \E t \in MainOnly, i \in 1 .. MaxFrames : ScopeTimerDtorAt(t, i, Steady)

SpecNesting == InitNesting /\ [][NextNesting]_vars

\* cpu_timer with two OS threads that have a Stack each, main with
\* StackFrameContexts, configured before the first Stack is constructed;
\* either thread may call Process::flush() at any time.
NextFlush ==
  \/ Unstarted /\ SetEnabled
  \/ Unstarted /\ SetCallbackPeriod({0, Period})
  \/ Unstarted /\ Process_set_callback
  \/ \E t \in Tids : Process_create_stack(t, Steady)
  \/ \E t \in Tids : Process_delete_stack(t, Steady)
  \/ \E t \in MainOnly : StackFrameContextCtor(t, Steady, MaxTimed)
  \/ \E t \in MainOnly : StackFrameContextDtor(t, Steady)
  \/ \E x \in Tids : Process_flush(x)
  \/ \E x \in Tids, t \in MainOnly : RacingFlush(x, t, Steady)

SpecFlush == InitFlush /\ [][NextFlush]_vars

\* The modules' first uses of get_process(), made by threads that run
\* concurrently, and the static destruction once every module has its Process.
InitProcess ==
  /\ \E tick \in Steady : wall = tick[1] /\ start = tick[1]
  /\ enabled = FALSE
  /\ callback_period = 0
  /\ callback = "CallbackType"
  /\ threads = << >>
  /\ thread_use_count = << >>
  /\ cpu = [t \in Tids |-> 0]
  /\ scopes = [t \in Tids |-> << >>]
  /\ hist = [t \in Tids |-> << >>]
  /\ aborted = FALSE
  /\ tmp_file = NoFile
  /\ process_container = [m \in Modules |-> [process |-> NullProcess, creating |-> FALSE]]
  /\ pc = NoCalls
  /\ mutex = Unlocked

AllInUse == \A m \in Modules : Holds(m) \/ process_container[m].creating

NextProcess ==
  \/ \E m \in Modules : ~AllInUse /\ get_process_lookup(m)
  \/ \E m \in Modules : get_process_create(m)
  \/ \E m \in Modules : AllInUse /\ ProcessContainerDtor(m, "main", Steady)

SpecProcess == InitProcess /\ [][NextProcess]_vars

\* One instrumented OS thread whose SCOPE_TIMER sites pass different names,
\* payloads and source locations; the program is configured before its
\* Thread is constructed.
InitPayload == Init0(Steady)

NextPayload ==
  \/ Unstarted /\ SetEnabled
  \/ Unstarted /\ SetCallbackPeriod(Periods(Period))
  \/ Unstarted /\ SetCallback
  \/ \E t \in MainOnly : CreateThread(t, Steady, 1, 1)
  \/ \E t \in MainOnly : DeleteThread(t, Steady)
  \/ \E t \in MainOnly :
       Registered(t) /\ ScopeTimerCtor(t, Steady, {ArgsOf(threads[t].index)}, MaxFrames)
  \/ \E t \in MainOnly : ScopeTimerDtor(t, Steady)

SpecPayload == InitPayload /\ [][NextPayload]_vars

\* ------------------------------------------------------------ observations
\* Every Thread object there has been, as its history record.
AllLives == UNION { { hist[t][k] : k \in 1 .. Len(hist[t]) } : t \in Tids }

\* get_all_frames that puts each batch in front of the batches before it.
get_all_frames_prepending(life) ==
  Concat([i \in 1 .. Len(life.calls) |-> life.calls[Len(life.calls) + 1 - i].drained])

\* StoreCallback::get_all_frames: the batches drained in thread_in_situ, in
\* the order of the calls, then the one drained in thread_stop.
get_all_frames(life) ==
  Concat([i \in 1 .. Len(life.calls) |-> life.calls[i].drained])

\* What a frame is from the moment its timers are started.
Identity(tm) ==
  [ index |-> tm.index, caller_index |-> tm.caller_index, prev_index |-> tm.prev_index,
    name |-> tm.name, source_loc |-> tm.source_loc, info |-> tm.info,
    process_start |-> tm.process_start,
    start_wall |-> tm.start_wall, start_cpu |-> tm.start_cpu ]

\* The frames ds are the frames es, each exactly once.
ExactlyOnce(ds, es) ==
  /\ Len(ds) = Len(es)
  /\ \A k \in 1 .. Len(es) :
       Cardinality({ i \in 1 .. Len(ds) : Identity(ds[i]) = Identity(es[k]) }) = 1

InSitu(calls) == { i \in 1 .. Len(calls) : calls[i].hook = "thread_in_situ" }

Stops(calls) == { i \in 1 .. Len(calls) : calls[i].hook = "thread_stop" }

\* The callback called drain_finished() in every thread_in_situ and thread_stop.
DrainsInEveryHook(life) ==
  \A i \in InSitu(life.calls) \cup Stops(life.calls) : life.calls[i].cb = "StoreCallback"

\* This step exits a frame of the Thread registered under t (the root's exit
\* in ~Thread included).
ExitStep(t) ==
  /\ Registered(t)
  /\ \/ t \notin DOMAIN threads'
     \/ Len(threads'[t].stack) < Len(threads[t].stack)

\* This step enters a frame on the Thread registered under t.
EnterStep(t) ==
  /\ Registered(t)
  /\ t \in DOMAIN threads'
  /\ Len(threads'[t].stack) > Len(threads[t].stack)

\* The Thread objects there have been, as (thread id, position in hist).
LifeIds == UNION { { << t, k >> : k \in 1 .. Len(hist[t]) } : t \in Tids }

LifeAt(id) == hist[id[1]][id[2]]

\* The Thread object of LifeAt(id) still exists (it is threads[id[1]]).
Alive(id) == id[2] = Len(hist[id[1]]) /\ ~LifeAt(id).over

StackOf(id) == IF Alive(id) THEN threads[id[1]].stack ELSE << >>

FinishedOf(id) == IF Alive(id) THEN threads[id[1]].finished ELSE << >>

\* The frames of the Thread that have been exited.
Completed(id) == Len(LifeAt(id).entered) - Len(StackOf(id))

\* The frames of the Thread, wherever they are now: on the active list, in
\* finished, drained by the callback, or destroyed with the Thread.
Frames(id) ==
  StackOf(id) \o FinishedOf(id) \o get_all_frames(LifeAt(id)) \o LifeAt(id).left

Range(seq) == { seq[i] : i \in 1 .. Len(seq) }

\* The root frame is the one the Thread's constructor entered.
IsRoot(id, f) == Identity(f) = Identity(LifeAt(id).entered[1])

\* The CPU time maybe_flush read when it called the hook: the stop time of
\* the frame finished last.
Now(call) == get_stop_cpu(Back(call.avail))

\* The Thread is torn down and all its frames were drained by the callback.
FullyDrained(life) == life.over /\ life.left = << >>

\* The indices of the frames of fs whose caller is p.
Children(fs, p) ==
  { f.index : f \in { g \in Range(fs) : g.caller_index = p.index /\ g.index # p.index } }

\* verify_preorder's walk: the indices met from index x on, following
\* prev_index while has_prev(), in a frame set sorted by index.
SiblingChain(fs, x) ==
  LET RECURSIVE walk(_, _)
      walk(y, fuel) ==
        LET at == { f \in Range(fs) : f.index = y }
        IN IF fuel = 0 THEN << >>
           ELSE IF at = {} THEN << y >>
           ELSE LET f == CHOOSE g \in at : TRUE
                IN IF has_prev(f) THEN << y >> \o walk(f.prev_index, fuel - 1)
                   ELSE << y >>
  IN walk(x, Len(fs))

\* ------------------------------------------------------------------ claims

\* C1: whatever the policy, once a Thread is torn down, if the callback
\* drained in every thread_in_situ and in thread_stop, the batches it drained,
\* concatenated, hold every frame entered on the Thread (the root included)
\* exactly once.
C1_NoLossNoDuplication ==
  \A life \in AllLives :
    (life.over /\ DrainsInEveryHook(life))
      => ExactlyOnce(get_all_frames(life), life.entered)

\* A torn-down Thread of three frames whose callback drained a batch of two
\* in thread_in_situ.
C1_Witness ==
  \E life \in AllLives :
    /\ life.over
    /\ DrainsInEveryHook(life)
    /\ Len(life.entered) >= 3
    /\ \E i \in InSitu(life.calls) : Len(life.calls[i].drained) = 2

C2_Step ==
  \A t \in Tids :
    (ExitStep(t) /\ callback_period = 0)
      => Cardinality(InSitu(Life(t)'.calls)) = Cardinality(InSitu(Life(t).calls))

C2_AtStop ==
  \A life \in AllLives :
    (life.over /\ InSitu(life.calls) = {})
      => \A i \in Stops(life.calls) :
           /\ ExactlyOnce(life.calls[i].avail, life.entered)
           /\ life.calls[i].cb = "StoreCallback" => life.calls[i].drained = life.calls[i].avail

\* C2: an exit made while the callback period is 0 invokes no
\* thread_in_situ; and when thread_in_situ was never invoked for a Thread,
\* the finished collection at thread_stop holds all the frames entered on the
\* Thread, the root included, which is what a drain in thread_stop returns.
C2_PolicyNever == [] C2_AtStop /\ [][C2_Step]_vars

\* A Thread of three frames torn down under period 0 without any
\* thread_in_situ, whose thread_stop drained all three.
C2_Witness ==
  \E life \in AllLives :
    /\ life.over
    /\ callback_period = 0
    /\ InSitu(life.calls) = {}
    /\ Len(life.entered) >= 3
    /\ \E i \in Stops(life.calls) : Len(life.calls[i].drained) = Len(life.entered)


C3_Step ==
  \A t \in Tids :
    (ExitStep(t) /\ callback_period = 1)
      => Cardinality(InSitu(Life(t)'.calls)) = Cardinality(InSitu(Life(t).calls)) + 1

C3_OneEach ==
  \A id \in LifeIds :
    LET life == LifeAt(id) IN
    (DrainsInEveryHook(life) /\ Cardinality(InSitu(life.calls)) = Completed(id))
      => /\ \A i \in InSitu(life.calls) : Len(life.calls[i].drained) = 1
         /\ \A i \in Stops(life.calls) : life.calls[i].drained = << >>

\* C3: an exit made while the callback period is 1 (the root's exit at
\* teardown included) invokes thread_in_situ exactly once; and when
\* thread_in_situ was invoked once per completed frame of a Thread and the
\* callback drained in every hook, every drain in thread_in_situ returned
\* exactly one frame and the drain in thread_stop returned none.
C3_PolicyAlways == [] C3_OneEach /\ [][C3_Step]_vars

\* A Thread of three frames torn down under period 1 after three
\* thread_in_situ calls, each draining one frame.
C3_Witness ==
  \E life \in AllLives :
    /\ life.over
    /\ callback_period = 1
    /\ DrainsInEveryHook(life)
    /\ Len(life.entered) >= 3
    /\ Cardinality(InSitu(life.calls)) = Len(life.entered)
    /\ \A i \in InSitu(life.calls) : Len(life.calls[i].drained) = 1


\* C4 (as claimed): under set_callback_period(P), two thread_in_situ calls for
\* one Thread are never closer than P in the CPU time maybe_flush reads.
C4_NotSoonerThanPeriod ==
  \A life \in AllLives :
    callback_period > 1
      => \A i \in InSitu(life.calls), j \in InSitu(life.calls) :
           i < j => Now(life.calls[j]) >= Now(life.calls[i]) + callback_period

\* C5: for every Thread, thread_start is the first hook called and is called
\* once, with the root frame on the active list; thread_stop is called at
\* teardown and only then, once, and no hook follows it; the Thread is
\* registered exactly until its thread_stop.
C5_Lifecycle ==
  \A id \in LifeIds :
    LET life == LifeAt(id)
        calls == life.calls
    IN /\ Len(calls) >= 1
       /\ calls[1].hook = "thread_start"
       /\ calls[1].depth = 1 /\ Len(life.entered) >= 1
       /\ \A i \in 2 .. Len(calls) : calls[i].hook # "thread_start"
       /\ \A i \in 1 .. Len(calls) - 1 : calls[i].hook # "thread_stop"
       /\ life.over <=> calls[Len(calls)].hook = "thread_stop"
       /\ ~life.over <=> (id[2] = Len(hist[id[1]]) /\ Registered(id[1]))

\* A torn-down Thread for which thread_start, thread_in_situ and thread_stop
\* were called.
C5_Witness ==
  \E life \in AllLives :
    /\ life.over
    /\ InSitu(life.calls) # {}
    /\ Stops(life.calls) # {}

\* C6 (as claimed): whatever the callback does, no finished frame is destroyed
\* with its Thread.
C6_NothingDestroyed == \A life \in AllLives : life.over => life.left = << >>

\* C6 (amended): teardown calls thread_stop exactly once under every policy
\* and callback, and at that call finished holds every frame of the Thread
\* that no earlier drain returned, the root included; what the callback does
\* not drain there is destroyed with the Thread.
C6_StopIsHandedTheRest ==
  \A life \in AllLives :
    life.over
      => /\ Cardinality(Stops(life.calls)) = 1
         /\ \A i \in Stops(life.calls) :
              /\ ExactlyOnce(
                   Concat([j \in 1 .. i - 1 |-> life.calls[j].drained]) \o life.calls[i].avail,
                   life.entered)
              /\ life.calls[i].drained \o life.left = life.calls[i].avail

\* A Thread torn down under a callback that never drains: its frames were in
\* finished at thread_stop and were destroyed with it.
C6_Witness ==
  \E life \in AllLives :
    /\ life.over
    /\ \A i \in 1 .. Len(life.calls) : life.calls[i].cb = "CallbackType"
    /\ Len(life.left) >= 3

\* C7: the frames drained from a torn-down Thread that left nothing behind
\* use each index of 0..n-1 exactly once, n being their number, and the frame
\* with index 0 is the root.
C7_Density ==
  \A id \in LifeIds :
    FullyDrained(LifeAt(id))
      => LET fs == get_all_frames(LifeAt(id))
         IN /\ \A x \in 0 .. Len(fs) - 1 :
                 Cardinality({ i \in 1 .. Len(fs) : fs[i].index = x }) = 1
            /\ \A i \in 1 .. Len(fs) : fs[i].index = 0 <=> IsRoot(id, fs[i])

\* A fully drained Thread of four frames, drained in more than one batch.
C7_Witness ==
  \E life \in AllLives :
    /\ FullyDrained(life)
    /\ Len(get_all_frames(life)) = 4
    /\ InSitu(life.calls) # {}

C8_Links ==
  \A id \in LifeIds :
    \A f \in Range(Frames(id)) :
      IF IsRoot(id, f)
      THEN f.caller_index = 0 /\ f.index = 0
      ELSE f.caller_index < f.index

C8_Step ==
  \A t \in Tids :
    EnterStep(t)
      => Back(threads'[t].stack).caller_index = Back(threads[t].stack).index

\* C8: every frame but the root has caller_index < index, the root has
\* caller_index = index = 0, and the caller_index a frame is entered with is
\* the index of the frame that was on top of the active list.
C8_CallerLinks == [] C8_Links /\ [][C8_Step]_vars

\* A frame whose caller is not the root.
C8_Witness ==
  \E id \in LifeIds : \E f \in Range(Frames(id)) : f.caller_index >= 1

\* C9: in the complete frame set of a Thread, the chain from a frame's
\* youngest_child_index along prev_index visits exactly the frames whose
\* caller it is, each once, in decreasing index order, and ends at a frame
\* whose prev_index is 0; a leaf is nobody's caller.
C9_SiblingChain ==
  \A id \in LifeIds :
    FullyDrained(LifeAt(id))
      => LET fs == get_all_frames(LifeAt(id))
         IN \A p \in Range(fs) :
              IF is_leaf(p)
              THEN Children(fs, p) = {}
              ELSE LET chain == SiblingChain(fs, p.youngest_child_index)
                   IN /\ Range(chain) = Children(fs, p)
                      /\ Len(chain) = Cardinality(Children(fs, p))
                      /\ \A i \in 1 .. Len(chain) - 1 : chain[i] > chain[i + 1]
                      /\ \E f \in Range(fs) :
                           f.index = chain[Len(chain)] /\ f.prev_index = 0

\* A complete frame set in which the root has three children.
C9_Witness ==
  \E life \in AllLives :
    /\ FullyDrained(life)
    /\ LET fs == get_all_frames(life)
       IN \E p \in Range(fs) : Cardinality(Children(fs, p)) = 3

Exited(id) == FinishedOf(id) \o get_all_frames(LifeAt(id)) \o LifeAt(id).left

\* C12: every frame that has been exited has start_wall <= stop_wall and
\* start_cpu <= stop_cpu.
C12_StartBeforeStop ==
  \A id \in LifeIds :
    \A f \in Range(Exited(id)) :
      /\ f.start_wall <= f.stop_wall
      /\ f.start_cpu <= f.stop_cpu
      /\ get_start_wall(f) <= get_stop_wall(f)
      /\ get_start_cpu(f) <= get_stop_cpu(f)

\* An exited frame that stopped at the wall and CPU time it started at, and
\* one that stopped later.
C12_Witness ==
  \E id \in LifeIds :
    \E f \in Range(Exited(id)), g \in Range(Exited(id)) :
      /\ f.start_wall = f.stop_wall /\ f.start_cpu = f.stop_cpu
      /\ g.start_wall < g.stop_wall /\ g.start_cpu < g.stop_cpu


\* The frames of a torn-down Thread in the order they were exited: those
\* drained, then those destroyed with the Thread.
CompletionOrder(life) == get_all_frames(life) \o life.left

\* C13: the Thread of the f1..f4 program, once torn down, has finished its
\* frames in the order 4,3,6,5,2,1,0, with callers 3,2,5,2,1,0,0; frame 5
\* has prev_index 3, frame 3 has prev_index 0, frame 2 has
\* youngest_child_index 5.
C13_Scenario ==
  \A life \in AllLives :
    life.over
      => LET fs == CompletionOrder(life)
         IN /\ [i \in 1 .. Len(fs) |-> << fs[i].index, fs[i].caller_index, fs[i].source_loc >>]
                 = << << 4, 3, "f4" >>, << 3, 2, "f3" >>, << 6, 5, "f4" >>, << 5, 2, "f3" >>,
                      << 2, 1, "f2" >>, << 1, 0, "f1" >>, << 0, 0, "" >> >>
            /\ fs[4].prev_index = 3
            /\ fs[2].prev_index = 0
            /\ fs[5].youngest_child_index = 5

\* The Thread of the f1..f4 program is torn down, and its seven frames were
\* drained in more than one batch.
C13_Witness ==
  \E life \in AllLives :
    /\ FullyDrained(life)
    /\ Len(get_all_frames(life)) = 7
    /\ Cardinality(InSitu(life.calls)) >= 2


\* The Thread registered under t, if there is one: active list, finished
\* collection and index counter.
ThreadOf(t) == IF Registered(t) THEN << threads[t] >> ELSE << >>

C14_OwnIndexSpace ==
  \A id \in LifeIds :
    LET life == LifeAt(id)
        fs == Frames(id)
    IN /\ Len(fs) = Len(life.entered)
       /\ \A x \in 0 .. Len(fs) - 1 :
            Cardinality({ i \in 1 .. Len(fs) : fs[i].index = x }) = 1
       /\ \A i \in 1 .. Len(fs) : fs[i].index = 0 <=> IsRoot(id, fs[i])
       /\ Alive(id) => threads[id[1]].index = Len(fs)
       /\ Cardinality({ i \in 1 .. Len(life.calls) : life.calls[i].hook = "thread_start" }) = 1
       /\ Cardinality(Stops(life.calls)) = IF life.over THEN 1 ELSE 0

C14_Step ==
  \A t \in Tids, u \in Tids :
    (t # u /\ (ThreadOf(t)' # ThreadOf(t) \/ hist'[t] # hist[t]))
      => (ThreadOf(u)' = ThreadOf(u) /\ hist'[u] = hist[u])

\* C14: with two OS threads whose calls interleave, each Thread has its own
\* root with index 0 and uses the indices 0..n-1 once each; a step that
\* changes one Thread (or calls a hook for it) leaves the other Thread's
\* active list, finished collection and index counter as they were; each
\* Thread gets thread_start once and, when torn down, thread_stop once.
C14_Independence == [] C14_OwnIndexSpace /\ [][C14_Step]_vars

\* The worker's Thread has been torn down, after having run a scope, while
\* main's Thread still has the spawning scope open.
C14_Witness ==
  /\ hist["worker"] # << >>
  /\ Life("worker").over
  /\ Len(Life("worker").entered) >= 2
  /\ Registered("main")
  /\ Len(threads["main"].stack) >= 2
  /\ threads["main"].index >= 2


\* The callback called drain_finished() in this hook call.
Drains(call) == call.cb = "StoreCallback" /\ call.hook # "thread_start"

\* The frames are in the order they were exited (the clock advances between
\* two exits).
InCompletionOrder(fs) ==
  \A i \in 1 .. Len(fs), j \in 1 .. Len(fs) :
    i < j => get_stop_cpu(fs[i]) < get_stop_cpu(fs[j])

\* C15: drain_finished() returns all of finished, in completion order, and
\* leaves it empty and the active list and the index counter as they were; a
\* second drain_finished() with no exit in between (thread_stop after the
\* thread_in_situ of the root's exit) returns nothing.
C15_IdempotentDrain ==
  /\ \A t \in Tids :
       Registered(t)
         => LET th == threads[t]
                once == drain_finished(th)
                twice == drain_finished(once.thread)
            IN /\ once.ret = th.finished
               /\ InCompletionOrder(once.ret)
               /\ once.thread = [th EXCEPT !.finished = << >>]
               /\ twice.ret = << >>
               /\ twice.thread = once.thread
  /\ \A life \in AllLives :
       \A i \in 1 .. Len(life.calls) :
         Drains(life.calls[i])
           => /\ life.calls[i].drained = life.calls[i].avail
              /\ InCompletionOrder(life.calls[i].drained)
              /\ (i > 1 /\ Drains(life.calls[i - 1])
                  /\ life.calls[i - 1].depth = 0 /\ life.calls[i].hook = "thread_stop")
                   => life.calls[i].drained = << >>

\* A Thread is torn down: the thread_in_situ of the root's exit drained two
\* frames and the thread_stop that followed drained again.
C15_Witness ==
  \E life \in AllLives :
    \E i \in 2 .. Len(life.calls) :
      /\ Drains(life.calls[i]) /\ life.calls[i].hook = "thread_stop"
      /\ Drains(life.calls[i - 1]) /\ life.calls[i - 1].depth = 0
      /\ Len(life.calls[i - 1].drained) >= 2


\* C16 (as claimed): every hook called for a Thread goes to the callback
\* that was installed when the Thread was constructed, whatever set_callback
\* is called with while the Thread exists.
C16_CallbackCapturedAtCreation ==
  \A life \in AllLives :
    \A i \in 1 .. Len(life.calls) : life.calls[i].cb = life.calls[1].cb


C17_Step ==
  \A t \in Tids :
    /\ (Len(scopes'[t]) = Len(scopes[t]) + 1 /\ ~Back(scopes'[t]).enabled)
         => UNCHANGED << threads, hist, aborted >>
    /\ (Len(scopes'[t]) = Len(scopes[t]) - 1 /\ ~Back(scopes[t]).enabled)
         => UNCHANGED << threads, hist, aborted >>

C18_AtomicSwap ==
  \A id \in LifeIds : ExactlyOnce(Frames(id), LifeAt(id).entered)


C19_OnePerId ==
  \A t \in Tids :
    /\ Registered(t) <=> UseCount(t) >= 1
    /\ Cardinality({ k \in 1 .. Len(hist[t]) : ~hist[t][k].over })
         = IF Registered(t) THEN 1 ELSE 0

C19_Step ==
  \A t \in Tids :
    /\ (UseCount(t)' = UseCount(t) + 1 /\ Registered(t))
         => (ThreadOf(t)' = ThreadOf(t) /\ hist'[t] = hist[t])
    /\ (UseCount(t)' = UseCount(t) + 1 /\ ~Registered(t))
         => /\ Registered(t)'
            /\ Len(hist'[t]) = Len(hist[t]) + 1
            /\ Len(Life(t)'.calls) = 1 /\ Life(t)'.calls[1].hook = "thread_start"
    /\ (UseCount(t)' = UseCount(t) - 1 /\ UseCount(t) >= 2)
         => (ThreadOf(t)' = ThreadOf(t) /\ hist'[t] = hist[t])
    /\ (UseCount(t)' = UseCount(t) - 1 /\ UseCount(t) = 1)
         => /\ ~Registered(t)'
            /\ ~Life(t).over /\ Life(t)'.over
            /\ Back(Life(t)'.calls).hook = "thread_stop"
    /\ (Registered(t) /\ ~Registered(t)') => (UseCount(t) = 1 /\ UseCount(t)' = 0)

\* C19: there is a Thread registered under an id exactly while the number of
\* outstanding create_thread calls for the id is not zero, and never two; a
\* create_thread for a registered id leaves that Thread as it is and calls no
\* hook; a delete_thread removes and destroys the Thread (thread_stop) when it
\* brings the count to zero and otherwise leaves it as it is.
C19_Registry == [] C19_OnePerId /\ [][C19_Step]_vars

\* create_thread was called twice for an id whose Thread has entered a frame
\* besides the root.
C19_Witness ==
  \E t \in Tids :
    /\ UseCount(t) = 2
    /\ Registered(t)
    /\ threads[t].index >= 2
    /\ Len(Life(t).calls) >= 1


C20_Step ==
  \A t \in Tids :
    (~Registered(t) /\ Registered(t)')
      => LET th == threads'[t]
         IN /\ UseCount(t) = 0 /\ UseCount(t)' = 1
            /\ Len(th.stack) = 1
            /\ th.stack[1].index = 0 /\ th.stack[1].caller_index = 0
            /\ th.stack[1].prev_index = 0 /\ th.stack[1].youngest_child_index = 0
            /\ th.stack[1].source_loc = ""
            /\ th.stack[1].stop_cpu = 0 /\ th.stack[1].start_cpu = cpu'[t]
            /\ th.finished = << >>
            /\ th.index = 1
            /\ th.last_log = 0
            /\ Life(t)' = [NewLife EXCEPT !.calls = Life(t)'.calls,
                                          !.entered = << th.stack[1] >>]
            /\ Len(Life(t)'.calls) = 1
            /\ Life(t)'.calls[1].hook = "thread_start"
            /\ Life(t)'.calls[1].avail = << >>
            /\ \A k \in 1 .. Len(hist[t]) : hist'[t][k] = hist[t][k] /\ hist[t][k].over

\* The frames of a Thread use the indices from 0 on, and none of them was
\* started before the Thread's root.
C20_OwnFrames ==
  \A id \in LifeIds :
    \A f \in Range(Frames(id)) :
      /\ f.index < Len(LifeAt(id).entered)
      /\ f.start_cpu >= LifeAt(id).entered[1].start_cpu

\* C20: a create_thread for an id whose earlier Thread was destroyed
\* constructs a fresh Thread: count 1, a new root with index 0 alone on the
\* active list, finished empty, index counter restarted, thread_start called
\* again; the frames of a Thread are its own.
C20_FreshThread == [] C20_OwnFrames /\ [][C20_Step]_vars

\* A second Thread under the id of one that was destroyed after two
\* create_thread calls and with frames left in finished; the second has
\* entered a frame of its own.
C20_Witness ==
  \E t \in Tids :
    /\ Len(hist[t]) = 2
    /\ hist[t][1].over /\ Len(hist[t][1].entered) = 2 /\ hist[t][1].left # << >>
    /\ Registered(t)
    /\ UseCount(t) = 1
    /\ threads[t].index = 2

\* C21: every hook call for a Thread (thread_start, thread_in_situ,
\* thread_stop) is made on the OS thread that owns the Thread, the one whose
\* id it is registered under; also the calls of the teardown of a Thread
\* that is still registered when the Process is destroyed.
C21_HooksOnOwningThread ==
  \A id \in LifeIds :
    \A i \in 1 .. Len(LifeAt(id).calls) : LifeAt(id).calls[i].by = id[1]

\* The active list of some registered Thread is empty.
Exhausted == \E t \in DOMAIN threads : threads[t].stack = << >>

C22_Step ==
  /\ \A t \in DOMAIN threads :
       threads[t].stack = << >>
         => /\ t \in DOMAIN threads'
            /\ \/ threads'[t] = threads[t] /\ hist'[t] = hist[t]
               \/ EnterStep(t) /\ threads'[t].finished = threads[t].finished
                               /\ Life(t)'.calls = Life(t).calls
  /\ (~aborted /\ aborted') => (Exhausted /\ threads' = threads /\ hist' = hist)

\* C22: exit_stack_frame on a Thread whose active list is empty (a ScopeTimer's
\* exit, an unmatched exit or the root's exit in ~Thread, after the root was
\* exited) trips the assertion; nothing is appended to finished, nothing is
\* popped and no hook is called: all that can still change the Thread is an
\* enter.  The assertion trips on nothing else.
C22_ExitOnEmptyTrips == [][C22_Step]_vars

\* The assertion has tripped on a Thread that was exited once too often, and
\* whose root frame is in finished or was handed to the callback.
C22_Witness ==
  /\ aborted
  /\ \E id \in LifeIds :
       /\ Alive(id) /\ StackOf(id) = << >>
       /\ Len(LifeAt(id).entered) >= 2
       /\ \E f \in Range(FinishedOf(id) \o get_all_frames(LifeAt(id))) : IsRoot(id, f)

\* This step destroys the i-th live ScopeTimer of t.
DestroysScope(t, i) ==
  /\ i \in DOMAIN scopes[t]
  /\ scopes'[t] = Remove(scopes[t], i)

\* C23 (as claimed): the destruction of an enabled ScopeTimer whose frame is
\* not the one on top of the active list is never carried out as an exit: no
\* step destroys such a ScopeTimer and pops a frame.
C23_Step ==
  \A t \in DOMAIN threads :
    \A i \in DOMAIN scopes[t] :
      ( /\ DestroysScope(t, i)
        /\ scopes[t][i].enabled
        /\ threads[t].stack # << >>
        /\ scopes[t][i].frame # Back(threads[t].stack).index )
        => ~ExitStep(t)

C23_MismatchDetected == [][C23_Step]_vars

\* C24 (as claimed): whatever the clocks return, a Timer that was started
\* (every Timer on an active list: enter_stack_frame started it once) would
\* trip the assertion of a second start_timers and passes those of its
\* stop_timers; a Timer that was stopped (every exited frame) would trip the
\* assertion of a second stop_timers; a Timer as constructed, never started,
\* trips the assertion of stop_timers.
C24_TimerStateMachine ==
  /\ \A id \in LifeIds :
       /\ \A tm \in Range(StackOf(id)) :
            ~start_timers_assert(tm) /\ stop_timers_assert(tm)
       /\ \A tm \in Range(FinishedOf(id) \o get_all_frames(LifeAt(id)) \o LifeAt(id).left) :
            ~stop_timers_assert(tm)
  /\ \A args \in PlainArgs \cup {RootArgs} :
       ~stop_timers_assert(Timer(start, args, 0, 0, 0))

\* The batches handed to the callback for a Stack, in the order of the calls.
Delivered(id) == get_all_frames(LifeAt(id))

\* C25 (as claimed): with a callback set, every batch of a Process::flush()
\* is non-empty and is all the Stack's finished collection held; and every
\* frame that was exited is either still in finished or was delivered, in
\* exactly one batch: none is delivered again by a later flush, by
\* maybe_flush or at teardown, and none is dropped.
C25_FlushAll ==
  callback # NoCallback =>
    \A id \in LifeIds :
      /\ \A i \in 1 .. Len(LifeAt(id).calls) :
           LET call == LifeAt(id).calls[i]
           IN call.hook = "Process::flush"
                => call.drained # << >> /\ call.drained = call.avail
      /\ LET fs == FinishedOf(id) \o Delivered(id)
         IN /\ Len(fs) = Completed(id)
            /\ \A i \in 1 .. Len(fs), j \in 1 .. Len(fs) :
                 fs[i].start_index = fs[j].start_index => i = j

\* C26 (as claimed): whatever the interleaving of the modules' first uses,
\* one Process is constructed: the process_containers that hold a Process
\* hold the same one, and the file names it.
C26_OneProcess ==
  \A m \in Modules, o \in Modules :
    (Holds(m) /\ Holds(o)) => process_container[m].process = process_container[o].process

\* The name, payload and source location of a frame.
Payload(tm) == [name |-> tm.name, info |-> tm.info, source_loc |-> tm.source_loc]

\* C27: a frame holds the name, payload and source location that were
\* passed when it was entered (the root: the defaults), wherever it is: on
\* the active list, in finished, in a batch the callback drained or left in
\* finished at teardown.
C27_PayloadVerbatim ==
  \A id \in LifeIds :
    \A f \in Range(Frames(id)) :
      Payload(f) = IF f.index = 0 THEN RootArgs ELSE ArgsOf(f.index)

\* The callback has drained a frame with a payload and a frame with a name,
\* while another frame with a payload is on the active list.
C27_Witness ==
  \E id \in LifeIds :
    /\ \E f \in Range(get_all_frames(LifeAt(id))) : f.info = "hello"
    /\ \E f \in Range(get_all_frames(LifeAt(id))) : f.name = "named"
    /\ \E f \in Range(StackOf(id)) : f.info = "hello"

\* C28 (as claimed): every thread_in_situ is called while the root frame is
\* still on the active list, and with finished non-empty.
C28_InSituWhileActive ==
  \A id \in LifeIds :
    \A i \in InSitu(LifeAt(id).calls) :
      LifeAt(id).calls[i].depth >= 1 /\ LifeAt(id).calls[i].avail # << >>

\* C28 (amended): every thread_in_situ is called with finished non-empty, its
\* last frame the one just exited, and before thread_stop; it is called
\* either with the root on the active list, or from the root's exit in
\* ~Thread: then the active list is empty, the root is the last frame of
\* finished and the next hook called is thread_stop.
C28_InSituBeforeStop ==
  \A id \in LifeIds :
    LET calls == LifeAt(id).calls
    IN \A i \in InSitu(calls) :
         /\ calls[i].avail # << >>
         /\ \A j \in 1 .. i : calls[j].hook # "thread_stop"
         /\ calls[i].depth = 0
              => /\ IsRoot(id, Back(calls[i].avail))
                 /\ i < Len(calls) /\ calls[i + 1].hook = "thread_stop"
         /\ calls[i].depth >= 1 => ~IsRoot(id, Back(calls[i].avail))

\* thread_in_situ was called for a Thread once with the root on the active
\* list and once from the root's exit at teardown.
C28_Witness ==
  \E id \in LifeIds :
    /\ \E i \in InSitu(LifeAt(id).calls) : LifeAt(id).calls[i].depth >= 1
    /\ \E i \in InSitu(LifeAt(id).calls) : LifeAt(id).calls[i].depth = 0

\* The indices on the caller chain of the frame of index x, among the
\* frames entered on a Thread (entered[k] is the frame of index k - 1); the
\* chain ends at the root, whose caller_index is its own index.
Ancestors(entered, x) ==
  LET RECURSIVE up(_)
      up(y) == IF y = 0 THEN {}
               ELSE {entered[y + 1].caller_index} \cup up(entered[y + 1].caller_index)
  IN up(x)

\* C29: in the concatenation of the batches the callback drained for a
\* Thread, in the order of the calls, every frame comes after each of its
\* descendants and so before its caller and every other ancestor, whatever
\* the policy is and however it and the callback change.
C29_PostOrder ==
  \A id \in LifeIds :
    LET fs == get_all_frames(LifeAt(id))
    IN \A i \in 1 .. Len(fs), j \in 1 .. Len(fs) :
         fs[j].index \in Ancestors(LifeAt(id).entered, fs[i].index) => i < j

\* All seven frames of the f1..f4 program were drained, in at least three
\* batches of which one holds more than one frame.
C29_Witness ==
  \E id \in LifeIds :
    LET calls == LifeAt(id).calls
    IN /\ Len(get_all_frames(LifeAt(id))) = 7
       /\ Cardinality({ i \in 1 .. Len(calls) : calls[i].drained # << >> }) >= 3
       /\ \E i \in 1 .. Len(calls) : Len(calls[i].drained) >= 2

\* The active list of every Thread that exists is not empty and its bottom
\* element is the root frame, of index 0.
RootAtBottom ==
  \A id \in LifeIds :
    Alive(id) => /\ StackOf(id) # << >>
                 /\ StackOf(id)[1].index = 0
                 /\ IsRoot(id, StackOf(id)[1])

\* Every thread_stop call found the active list empty.
StopOnEmpty ==
  \A id \in LifeIds :
    \A i \in Stops(LifeAt(id).calls) : LifeAt(id).calls[i].depth = 0

\* A step that exits a frame removes the top of the active list and leaves
\* the frames below it as they were; the exit of ~Thread removes the root,
\* the only frame left.
C30_Step ==
  \A t \in Tids :
    ExitStep(t) =>
      IF t \in DOMAIN threads'
      THEN threads'[t].stack = PopBack(threads[t].stack)
      ELSE Len(threads[t].stack) = 1 /\ IsRoot(<< t, Len(hist[t]) >>, threads[t].stack[1])

\* C30: from the construction of a Thread until its teardown begins the active
\* list is never empty and its bottom element is the root frame (index 0);
\* exit_stack_frame only ever removes the topmost active frame; when
\* thread_stop is invoked the active list is empty.
C30_RootUntilTeardown ==
  /\ [](RootAtBottom /\ StopOnEmpty)
  /\ [][C30_Step]_vars

\* A Thread was torn down after frames had been nested two deep above its
\* root (a thread_in_situ call found two frames active after an exit) and
\* its thread_stop was called.
C30_Witness ==
  \E id \in LifeIds :
    LET calls == LifeAt(id).calls
    IN /\ LifeAt(id).over
       /\ Stops(calls) # {}
       /\ \E i \in InSitu(calls) : calls[i].depth >= 2

\* The thread_in_situ hook of this call returned without drain_finished().
Retains(call) == call.hook = "thread_in_situ" /\ ~Drains(call)

\* This call is a drain_finished(), in a hook or by the consumer that pulls.
Takes(call) == Drains(call) \/ call.hook = "poll"

IsPrefix(p, q) == Len(p) <= Len(q) /\ SubSeq(q, 1, Len(p)) = p

\* C31: when thread_in_situ returns without a drain_finished(), what was in
\* finished stays there, in completion order, and is the head of what the
\* next hook or pull finds; a drain_finished() returns all it finds.  The
\* frames drained so far followed by those in finished (or destroyed with
\* the Thread) are the frames exited so far, in the order of their exits,
\* each once.
C31_UndrainedRetained ==
  \A id \in LifeIds :
    LET calls == LifeAt(id).calls
        out == get_all_frames(LifeAt(id)) \o FinishedOf(id) \o LifeAt(id).left
    IN /\ \A i \in 1 .. Len(calls) :
            /\ Retains(calls[i])
                 => /\ calls[i].avail # << >>
                    /\ calls[i].drained = << >>
                    /\ InCompletionOrder(calls[i].avail)
                    /\ IF i = Len(calls)
                       THEN Alive(id) /\ IsPrefix(calls[i].avail, FinishedOf(id))
                       ELSE IsPrefix(calls[i].avail, calls[i + 1].avail)
            /\ Takes(calls[i]) => calls[i].drained = calls[i].avail
       /\ InCompletionOrder(out)
       /\ Len(out) = Completed(id)
       /\ \A f \in Range(out) : \E e \in Range(LifeAt(id).entered) : Identity(f) = Identity(e)

\* A thread_in_situ hook left its frames in finished, and the consumer's
\* next pull returned them followed by a frame finished since.
C31_Witness ==
  \E id \in LifeIds :
    LET calls == LifeAt(id).calls
    IN \E i \in 1 .. Len(calls) - 1 :
         /\ Retains(calls[i])
         /\ calls[i + 1].hook = "poll"
         /\ Len(calls[i + 1].drained) > Len(calls[i].avail)
         /\ IsPrefix(calls[i].avail, calls[i + 1].drained)

\* This step writes the start times of a frame of the Thread of t, or its
\* stop times.
StartCaptured(t) ==
  /\ Registered(t) /\ t \in DOMAIN threads'
  /\ \E i \in 1 .. Len(threads'[t].stack) :
       /\ threads'[t].stack[i].start_cpu # 0
       /\ i <= Len(threads[t].stack) => threads[t].stack[i].start_cpu = 0

StopCaptured(t) ==
  /\ Registered(t) /\ t \in DOMAIN threads'
  /\ \E i \in 1 .. Len(threads'[t].stack) :
       /\ threads'[t].stack[i].stop_cpu # 0
       /\ i <= Len(threads[t].stack) => threads[t].stack[i].stop_cpu = 0

C32_Step ==
  \A t \in Tids :
    LET th == threads[t]
        n == Len(th.stack)
    IN /\ StartCaptured(t)
            => /\ n >= 1 /\ Len(threads'[t].stack) = n
               /\ th.stack[n].start_cpu = 0 /\ threads'[t].stack[n].start_cpu # 0
               /\ th.index > th.stack[n].index
               /\ n >= 2 => /\ th.stack[n].caller_index = th.stack[n - 1].index
                            /\ th.stack[n - 1].youngest_child_index = th.stack[n].index
               /\ [threads'[t] EXCEPT !.stack[n].start_wall = 0, !.stack[n].start_cpu = 0] = th
               /\ \/ Returned(t)'
                  \/ \A k \in 1 .. Len(EnterOrder) : Head(pc'[t].todo)[1] # EnterOrder[k]
       /\ StopCaptured(t)
            => /\ n >= 1 /\ Len(threads'[t].stack) = n
               /\ th.stack[n].stop_cpu = 0 /\ threads'[t].stack[n].stop_cpu # 0
               /\ threads'[t].finished = th.finished
               /\ \A f \in Range(th.finished) : f.index # th.stack[n].index
               /\ hist'[t] = hist[t]
       /\ (Registered(t) /\ t \in DOMAIN threads' /\ Len(threads'[t].finished) > Len(th.finished))
            => /\ n >= 1 /\ th.stack[n].stop_cpu # 0
               /\ Back(threads'[t].finished) = th.stack[n]
       /\ (Registered(t) /\ t \in DOMAIN threads' /\ Len(threads'[t].stack) < n)
            => /\ th.stack[n].stop_cpu # 0
               /\ th.finished # << >> /\ Back(th.finished) = th.stack[n]
       /\ (~Returned(t) /\ pc'[t] # pc[t]
              /\ Head(pc[t].todo)[1] \in {"lock finished_mutex", "maybe_flush"})
            => /\ th.finished # << >> /\ Back(th.finished).stop_cpu # 0
               /\ \A f \in Range(th.stack) : f.stop_cpu = 0 /\ f.index # Back(th.finished).index

\* C32: the step of enter_stack_frame that captures the start times finds
\* the index allocated, the caller's youngest_child_index updated and the
\* frame on the active list, changes nothing but the two start times and is
\* the last of the enter; the step of exit_stack_frame that captures the stop
\* times finds the frame on top of the active list and not in finished, and
\* the frame is appended to finished, popped and the flush policy evaluated
\* only once its stop times are captured.
C32_StartLastStopFirst == [][C32_Step]_vars

\* A frame entered below another has its stop times captured and is still
\* on the active list, about to be moved to finished.
C32_Witness ==
  \E t \in DOMAIN threads :
    /\ Len(threads[t].stack) >= 3
    /\ Back(threads[t].stack).stop_cpu # 0
    /\ ~Returned(t)
    /\ Head(pc[t].todo)[1] = "finished.emplace_back"

\* A thread that is about to acquire the registry lock holds no Thread's
\* finished_mutex.
LockOrder ==
  \A x \in Tids :
    (~Returned(x) /\ Head(pc[x].todo)[1] = "lock threads_mutex")
      => \A t \in Tids : mutex.finished_mutex[t] # x

\* C33: with a fair scheduler and hooks that return, every call of
\* create_thread, delete_thread, exit_stack_frame (and enter_stack_frame) and
\* Process::flush returns, however the calls of the two threads interleave;
\* no call ends in a failed assertion; the registry lock is never acquired by
\* a thread that holds a finished lock.
C33_NoDeadlock ==
  /\ [](LockOrder /\ ~aborted)
  /\ \A x \in Tids : (~Returned(x)) ~> Returned(x)

\* The owning thread waits in maybe_flush for its finished_mutex, which the
\* other thread holds inside Process::flush, under the registry lock.
C33_Witness ==
  \E x \in Tids, t \in Tids :
    /\ x # t
    /\ mutex.finished_mutex[t] = x
    /\ mutex.threads_mutex.owner = x
    /\ ~Returned(t)
    /\ Head(pc[t].todo) = << "lock finished_mutex", t >>

\* C34: in every reachable state of a Thread, the indices of the frames on
\* its active list increase strictly from bottom to top, and each frame above
\* the bottom has the index of the frame directly below it for caller_index;
\* every frame on the active list is started (start_timers stored a CPU time)
\* and not stopped (its stop fields are unset), and every frame in finished
\* is stopped.
C34_ActiveList ==
  \A t \in DOMAIN threads :
    LET stack == threads[t].stack
        finished == threads[t].finished
    IN /\ \A i \in 2 .. Len(stack) :
            /\ stack[i - 1].index < stack[i].index
            /\ stack[i].caller_index = stack[i - 1].index
       /\ \A i \in 1 .. Len(stack) :
            /\ stack[i].start_cpu # 0
            /\ stack[i].stop_cpu = 0 /\ stack[i].stop_wall = 0
       /\ \A i \in 1 .. Len(finished) :
            finished[i].stop_cpu # 0 /\ finished[i].start_cpu # 0

\* Three frames are active, the top one a younger sibling, while its older
\* sibling waits in finished.
C34_Witness ==
  \E t \in DOMAIN threads :
    /\ Len(threads[t].stack) = 3
    /\ has_prev(Back(threads[t].stack))
    /\ Len(threads[t].finished) >= 1

\* The four links of a frame.
Links(tm) == << tm.index, tm.caller_index, tm.prev_index, tm.youngest_child_index >>

\* The links of the frames of the Thread that were appended to finished:
\* those still there, those drained by the callback, and those destroyed
\* with the Thread.
FinishedLinks(id) ==
  { Links(tm) : tm \in Range(FinishedOf(id) \o get_all_frames(LifeAt(id)) \o LifeAt(id).left) }

\* C35: a step that enters a frame on a Thread changes exactly one of the
\* frames there were, the top of the active list, and of it only
\* youngest_child_index (which becomes the new frame's index); and no step
\* (enter, exit, flush, drain, teardown) changes the index, caller_index,
\* prev_index or youngest_child_index of a frame that was appended to
\* finished, wherever the frame is by then.
C35_Step ==
  /\ \A t \in Tids :
       (EnterStep(t) /\ threads[t].stack # << >>) =>
         LET old == threads[t].stack
             new == threads'[t].stack
             n == Len(old)
         IN /\ Len(new) = n + 1
            /\ \A i \in 1 .. n - 1 : new[i] = old[i]
            /\ new[n] = [old[n] EXCEPT !.youngest_child_index = new[n + 1].index]
            /\ new[n] # old[n]
            /\ threads'[t].finished = threads[t].finished
  /\ \A id \in LifeIds : FinishedLinks(id) \subseteq FinishedLinks(id)'

C35_LinksFinal == [][C35_Step]_vars

\* A frame was finished and drained by the callback, and a frame entered
\* after that, its younger sibling, is active.
C35_Witness ==
  \E id \in LifeIds :
    \E f \in Range(get_all_frames(LifeAt(id))), g \in Range(StackOf(id)) :
      /\ g.prev_index = f.index
      /\ g.index > f.index

\* The frames of the Thread that were exited: in finished, drained, or
\* destroyed with the Thread.
Stopped(id) == FinishedOf(id) \o get_all_frames(LifeAt(id)) \o LifeAt(id).left

\* p starts no later than c, on both clocks.
StartsWithin(c, p) ==
  /\ get_start_wall(p) <= get_start_wall(c)
  /\ get_start_cpu(p) <= get_start_cpu(c)

\* c stops no later than p, on both clocks.
StopsWithin(c, p) ==
  /\ get_stop_wall(c) <= get_stop_wall(p)
  /\ get_stop_cpu(c) <= get_stop_cpu(p)

\* a stops no later than b starts, on both clocks.
Precedes(a, b) ==
  /\ get_stop_wall(a) <= get_start_wall(b)
  /\ get_stop_cpu(a) <= get_start_cpu(b)

\* C36: on every Thread, a frame c other than the root starts no earlier
\* than its caller p and, once both are stopped, stops no later than p, in
\* wall and in CPU time; and of two children of the same caller the older
\* is stopped and stops no later than the younger starts.
C36_Containment ==
  \A id \in LifeIds :
    LET fs == Range(Frames(id))
        done == Range(Stopped(id))
    IN \A c \in fs :
         ~IsRoot(id, c) =>
           /\ \A p \in fs :
                p.index = c.caller_index =>
                  /\ StartsWithin(c, p)
                  /\ (c \in done /\ p \in done) => StopsWithin(c, p)
                  /\ p \in done => c \in done
           /\ \A d \in fs :
                (~IsRoot(id, d) /\ d.caller_index = c.caller_index /\ c.index < d.index) =>
                  c \in done /\ Precedes(c, d)

\* A stopped frame has two stopped children, siblings, and the wall clock
\* advanced between the older one's stop and the younger one's start.
C36_Witness ==
  \E id \in LifeIds :
    \E p, c, d \in Range(Stopped(id)) :
      /\ ~IsRoot(id, c) /\ ~IsRoot(id, d)
      /\ c.caller_index = p.index /\ d.caller_index = p.index
      /\ c.index < d.index
      /\ get_stop_wall(c) < get_start_wall(d)

\* The live ScopeTimers of the OS thread t whose constructor entered a frame,
\* outermost first.
Entered(t) == SelectSeq(scopes[t], LAMBDA sc : sc.enabled)

\* The active list of the Thread of t is the root followed by the frames that
\* the constructors of the live ScopeTimers entered, one each, in order.
Paired(t) ==
  LET stack == threads[t].stack
  IN /\ Len(stack) = 1 + Len(Entered(t))
     /\ \A i \in 1 .. Len(Entered(t)) : stack[i + 1].index = Entered(t)[i].frame

C37_Step ==
  \A t \in Tids :
    /\ Len(scopes'[t]) = Len(scopes[t]) + 1
         => (EnterStep(t) <=> Back(scopes'[t]).enabled)
    /\ (Len(scopes'[t]) = Len(scopes[t]) - 1 /\ ~aborted')
         => /\ ExitStep(t) <=> Back(scopes[t]).enabled
            /\ Back(scopes[t]).enabled
                 => /\ Len(threads[t].stack) >= 2
                    /\ Back(threads[t].stack).index = Back(scopes[t]).frame
            /\ Len(threads'[t].stack) = 1 + Len(Entered(t)')

\* C37: however set_enabled calls are interleaved with the constructions and
\* destructions of ScopeTimers, a ScopeTimer's constructor enters a frame iff
\* it stored enabled, its destructor exits a frame iff that constructor
\* entered one, and the frame it exits is that one, never the root or the
\* frame of another ScopeTimer; the active list always is the root and the
\* frames of the live ScopeTimers that entered one, so that its depth after
\* a destructor is its depth before the matching constructor.
C37_Paired ==
  /\ [](\A t \in Tids : Registered(t) => Paired(t))
  /\ [][C37_Step]_vars

\* The Process is disabled while a ScopeTimer constructed enabled is live,
\* and enabled while one constructed disabled is live inside it.
C37_Witness ==
  \E t \in Tids :
    /\ Registered(t)
    /\ Len(scopes[t]) = 3
    /\ scopes[t][1].enabled /\ ~scopes[t][2].enabled /\ scopes[t][3].enabled
    /\ ~enabled

\* This step constructs the Thread of t while the Process is disabled: the
\* Thread has the root, index 0, on its active list and thread_start was
\* called for it, with the root active.
CreatedDisabled(t) ==
  (~enabled /\ ~Registered(t) /\ t \in DOMAIN threads') =>
    LET life == Back(hist'[t])
        stack == threads'[t].stack
    IN /\ Len(stack) = 1 /\ stack[1].index = 0
       /\ life.entered = << stack[1] >>
       /\ Len(life.calls) = 1
       /\ life.calls[1].hook = "thread_start" /\ life.calls[1].depth = 1

\* This step destroys the Thread of t while the Process is disabled: the root
\* was exited and thread_stop called last, with no frame active; if the
\* period is 0, no other frame was entered on the Thread and the callback
\* drains in thread_stop, that drain returns the root and nothing else.
DestroyedDisabled(t) ==
  (~enabled /\ Registered(t) /\ t \notin DOMAIN threads') =>
    LET life == Back(hist'[t])
        stop == Back(life.calls)
        id == << t, Len(hist[t]) >>
    IN /\ life.over
       /\ stop.hook = "thread_stop" /\ stop.depth = 0
       /\ \E tm \in Range(Stopped(id)') : tm.index = 0 /\ Identity(tm) = Identity(life.entered[1])
       /\ (callback_period = 0 /\ Len(life.entered) = 1 /\ Drains(stop)) =>
            /\ Len(stop.drained) = 1
            /\ stop.drained[1].index = 0
            /\ Identity(stop.drained[1]) = Identity(life.entered[1])

C38_Step == \A t \in Tids : CreatedDisabled(t) /\ DestroyedDisabled(t)

\* C38: a Thread constructed while the Process is disabled enters its root
\* frame and has thread_start called; one destroyed while the Process is
\* disabled has its root exited and thread_stop called; with period 0 and no
\* other frame entered, the drain in thread_stop returns exactly one frame,
\* the root, whose index is 0.
C38_RootRegardless == [][C38_Step]_vars

\* The Process is disabled, the period 0, and a Thread on which no scope was
\* recorded is torn down: thread_stop drained one frame.
C38_Witness ==
  \E life \in AllLives :
    /\ ~enabled /\ callback_period = 0
    /\ life.over /\ Len(life.entered) = 1
    /\ Len(life.calls) = 2
    /\ Drains(life.calls[2]) /\ Len(life.calls[2].drained) = 1

\* C39 (as claimed): a thread_in_situ hook that constructs and destroys a
\* ScopeTimer on the owning thread returns: the exit_stack_frame of that
\* ScopeTimer never comes to lock, in its maybe_flush, the finished_mutex
\* that the thread itself holds since the maybe_flush that called the hook.
C39_HookReturns ==
  \A x \in Tids :
    ~Returned(x) =>
      LET next == Head(pc[x].todo)
      IN ~(next[1] = "lock finished_mutex" /\ mutex.finished_mutex[next[2]] = x)

\* The OS thread x is inside delete_thread, called for an id under which no
\* Thread is registered, and about to run the statement after the lock.
DeletesUnregistered(x) ==
  /\ Len(pc[x].todo) = 2
  /\ Head(pc[x].todo)[1] \in {"if threads.count", "thread_use_count--"}
  /\ ~Registered(Head(pc[x].todo)[2])

C40_Step ==
  /\ \A x \in Tids : DeletesUnregistered(x) => UNCHANGED << threads, thread_use_count >>
  /\ \A t \in Tids :
       /\ UseCount(t) = 0 => UseCount(t)' \in {0, 1}
       /\ UseCount(t)' \in {UseCount(t) - 1, UseCount(t), UseCount(t) + 1}

\* C40: whenever no thread is inside create_thread or delete_thread (the
\* registry lock is free), a thread id has a Thread in the registry iff its
\* use count is greater than zero; a delete_thread for an id with no
\* registered Thread changes neither the registry nor a count; and no step
\* takes a use count from zero to anything but one, so that no sequence of
\* create_thread and delete_thread calls wraps a count below zero.
C40_RegistryCount ==
  /\ [](mutex.threads_mutex.owner = "none" =>
          \A t \in Tids : Registered(t) <=> UseCount(t) > 0)
  /\ [][C40_Step]_vars

\* delete_thread is called for an id whose Thread was destroyed by an
\* earlier delete_thread, while the other id is registered twice.
C40_Witness ==
  \E x \in Tids :
    /\ DeletesUnregistered(x)
    /\ hist[x] # << >> /\ Back(hist[x]).over
    /\ \E t \in Tids \ {x} : UseCount(t) = 2

====
